---- MODULE Spec2Model ----
(***************************************************************************)
(* The workout translator of runna_sync.py (RunnaTranslatorStateMachine)   *)
(* as a state machine over real text.  Texts are TLA+ strings; a line      *)
(* break is the character "\n".                                            *)
(***************************************************************************)
EXTENDS Integers, Sequences, FiniteSets, TLC

(***************************************************************************)
(* Text primitives (Python str / re semantics on the characters used).     *)
(***************************************************************************)
Ch(s, i) == SubSeq(s, i, i)

DigitChars == {"0", "1", "2", "3", "4", "5", "6", "7", "8", "9"}

UpperStr == "ABCDEFGHIJKLMNOPQRSTUVWXYZ"

LowerStr == "abcdefghijklmnopqrstuvwxyz"

SpaceChars == {" ", "\t", "\n", "\r", "\f"}

\* The source's bullet literal is the three code points U+00E2 U+20AC U+00A2
\* and its second noise marker the four code points U+00F0 U+0178 U+201C
\* U+00B2.  Each code point is written as one ASCII character that occurs
\* nowhere else in the texts: { | } and < ^ > ~ ; $ is U+00FF, the lower case
\* of U+0178.  U+00E2, U+00F0, U+0178, U+00FF and U+00B2 are \w characters.
NonAsciiWordChars == {"{", "<", "^", "$", "~"}

WordChars == DigitChars \cup {"_"} \cup {Ch(UpperStr, i) : i \in 1..26}
                 \cup {Ch(LowerStr, i) : i \in 1..26} \cup NonAsciiWordChars

LowerMap == [c \in {Ch(UpperStr, i) : i \in 1..26} |->
                Ch(LowerStr, CHOOSE i \in 1..26 : Ch(UpperStr, i) = c)]

LowerCh(c) ==
    IF c \in DOMAIN LowerMap THEN LowerMap[c] ELSE IF c = "^" THEN "$" ELSE c

\* str.lower(), by halves
RECURSIVE Lower(_)
Lower(s) ==
    IF Len(s) = 0 THEN ""
    ELSE IF Len(s) = 1 THEN LowerCh(s)
    ELSE LET h == Len(s) \div 2
         IN  Lower(SubSeq(s, 1, h)) \o Lower(SubSeq(s, h + 1, Len(s)))

\* s[i:] with a 1-based index
From(s, i) == SubSeq(s, i, Len(s))

\* re \b between position i-1 and i (1-based; i ranges over 1..Len(s)+1)
IsWordAt(s, i) == i >= 1 /\ i <= Len(s) /\ Ch(s, i) \in WordChars

Boundary(s, i) == IsWordAt(s, i - 1) # IsWordAt(s, i)

\* pat occurs in s starting at i
At(s, i, pat) ==
    /\ i >= 1
    /\ i + Len(pat) - 1 <= Len(s)
    /\ SubSeq(s, i, i + Len(pat) - 1) = pat

\* pat in s
Contains(s, pat) == \E i \in 1..(Len(s) - Len(pat) + 1) : At(s, i, pat)

\* s.startswith(pat)
StartsWith(s, pat) == At(s, 1, pat)

Min(S) == CHOOSE x \in S : \A y \in S : x <= y

Max(S) == CHOOSE x \in S : \A y \in S : x >= y

\* end (exclusive) of the longest run of characters of class cls from i
RunEnd(s, i, cls) ==
    IF i > Len(s) THEN i
    ELSE Min({j \in i..(Len(s) + 1) : j = Len(s) + 1 \/ Ch(s, j) \notin cls})

\* start of the longest run of characters of class cls ending before i
RunStart(s, i, cls) ==
    IF i <= 1 THEN i
    ELSE Max({j \in 1..i : j = 1 \/ Ch(s, j - 1) \notin cls})

\* str.strip()
Strip(s) ==
    LET a == RunEnd(s, 1, SpaceChars)
        b == RunStart(s, Len(s) + 1, SpaceChars)
    IN  IF a >= b THEN "" ELSE SubSeq(s, a, b - 1)

\* str.rstrip()
RStrip(s) == SubSeq(s, 1, RunStart(s, Len(s) + 1, SpaceChars) - 1)

\* str.rstrip(chars)
RStripChars(s, cls) == SubSeq(s, 1, RunStart(s, Len(s) + 1, cls) - 1)

DigitVal(c) == CHOOSE d \in 0..9 : Ch("0123456789", d + 1) = c

RECURSIVE IntOfTo(_, _)
IntOfTo(s, n) ==
    IF n = 0 THEN 0 ELSE IntOfTo(s, n - 1) * 10 + DigitVal(Ch(s, n))

\* int(s) for a string of decimal digits
IntOf(s) == IntOfTo(s, Len(s))

RECURSIVE StrOf(_)
\* str(n) for n >= 0
StrOf(n) ==
    IF n < 10 THEN Ch("0123456789", n + 1)
    ELSE StrOf(n \div 10) \o Ch("0123456789", (n % 10) + 1)

(***************************************************************************)
(* The regular expressions of the translator, each as the end position     *)
(* (exclusive) of its match starting at i, or 0 when it does not match     *)
(* there.  re.search takes the leftmost start.                             *)
(***************************************************************************)
\* the lower-cased character of s at i is c (re.IGNORECASE literals)
IsCh(s, i, c) == i >= 1 /\ i <= Len(s) /\ LowerCh(Ch(s, i)) = c

\* the literal pat (lower case) at i, ignoring case
AtI(s, i, pat) ==
    /\ i >= 1
    /\ i + Len(pat) - 1 <= Len(s)
    /\ Lower(SubSeq(s, i, i + Len(pat) - 1)) = pat

\* end of the number \d+(?:\.\d+)? starting at i, or 0
NumEnd(s, i) ==
    LET d == RunEnd(s, i, DigitChars)
        f == RunEnd(s, d + 1, DigitChars)
    IN  IF d = i THEN 0
        ELSE IF d <= Len(s) /\ Ch(s, d) = "." /\ f > d + 1 THEN f ELSE d

\* KM_RE = (\d+(?:\.\d+)?)\s*km\b, IGNORECASE: end of group 1, or 0
KM_RE(s, i) ==
    LET g == NumEnd(s, i)
        w == RunEnd(s, g, SpaceChars)
    IN  IF g # 0 /\ AtI(s, w, "km") /\ Boundary(s, w + 2) THEN g ELSE 0

\* (\d+)\s*<unit>\b, IGNORECASE: end of group 1, or 0
UnitRe(s, i, unit) ==
    LET d == RunEnd(s, i, DigitChars)
        w == RunEnd(s, d, SpaceChars)
    IN  IF d > i /\ IsCh(s, w, unit) /\ Boundary(s, w + 1) THEN d ELSE 0

\* M_DIST_RE = (\d+)\s*m\b, IGNORECASE
M_DIST_RE(s, i) == UnitRe(s, i, "m")

\* SEC_RE = (\d+)\s*s\b, IGNORECASE
SEC_RE(s, i) == UnitRe(s, i, "s")

\* MIN_RE = (\d+)\s*m\b, IGNORECASE
MIN_RE(s, i) == UnitRe(s, i, "m")

\* end of \d+:\d{2} starting at i, or 0
ClockEnd(s, i) ==
    LET d == RunEnd(s, i, DigitChars)
    IN  IF /\ d > i
           /\ d + 2 <= Len(s)
           /\ Ch(s, d) = ":"
           /\ Ch(s, d + 1) \in DigitChars
           /\ Ch(s, d + 2) \in DigitChars
        THEN d + 3 ELSE 0

\* PACE_RE = (\d+:\d{2})/km: end of group 1, or 0
PACE_RE(s, i) ==
    LET c == ClockEnd(s, i)
    IN  IF c # 0 /\ At(s, c, "/km") THEN c ELSE 0

\* RANGE_RE = (\d+:\d{2})-(\d+:\d{2})/km: end of group 1, or 0
RANGE_RE(s, i) ==
    LET c == ClockEnd(s, i)
        c2 == ClockEnd(s, c + 1)
    IN  IF c # 0 /\ At(s, c, "-") /\ c2 # 0 /\ At(s, c2, "/km") THEN c ELSE 0

\* re.search: the leftmost of the starts at which the pattern matches, or 0
Leftmost(hits) == IF hits = {} THEN 0 ELSE Min(hits)

SearchKM(s) == Leftmost({i \in 1..Len(s) : KM_RE(s, i) # 0})

SearchMDist(s) == Leftmost({i \in 1..Len(s) : M_DIST_RE(s, i) # 0})

SearchSec(s) == Leftmost({i \in 1..Len(s) : SEC_RE(s, i) # 0})

SearchMin(s) == Leftmost({i \in 1..Len(s) : MIN_RE(s, i) # 0})

SearchPace(s) == Leftmost({i \in 1..Len(s) : PACE_RE(s, i) # 0})

SearchRange(s) == Leftmost({i \in 1..Len(s) : RANGE_RE(s, i) # 0})

\* the text from i up to e (exclusive), or "" when i = 0 (no match)
Matched(s, i, e) == IF i = 0 THEN "" ELSE SubSeq(s, i, e - 1)

\* the tail \s*:?\s*$ of the header patterns, from i
HeaderTail(s, i) ==
    LET a == RunEnd(s, i, SpaceChars)
        b == IF a <= Len(s) /\ Ch(s, a) = ":" THEN a + 1 ELSE a
    IN  RunEnd(s, b, SpaceChars) = Len(s) + 1

\* REPS_RE = ^\s*(\d+)\s*reps of\s*:?\s*$, IGNORECASE: group 1, or "" (no match)
REPS_RE(s) ==
    LET a == RunEnd(s, 1, SpaceChars)
        d == RunEnd(s, a, DigitChars)
        w == RunEnd(s, d, SpaceChars)
    IN  IF d > a /\ AtI(s, w, "reps of") /\ HeaderTail(s, w + 7)
        THEN SubSeq(s, a, d - 1) ELSE ""

\* REPEAT_FOLLOWING_RE = ^\s*repeat the following\s+(\d+)x\s*:?\s*$, IGNORECASE
REPEAT_FOLLOWING_RE(s) ==
    LET a == RunEnd(s, 1, SpaceChars)
        b == a + 20
        w == RunEnd(s, b, SpaceChars)
        d == RunEnd(s, w, DigitChars)
    IN  IF /\ AtI(s, a, "repeat the following")
           /\ w > b
           /\ d > w
           /\ IsCh(s, d, "x")
           /\ HeaderTail(s, d + 1)
        THEN SubSeq(s, w, d - 1) ELSE ""

\* SEP_LINE_RE = ^\s*-{3,}\s*$ (re.match)
SEP_LINE_RE(s) ==
    LET a == RunEnd(s, 1, SpaceChars)
        d == RunEnd(s, a, {"-"})
    IN  d >= a + 3 /\ RunEnd(s, d, SpaceChars) = Len(s) + 1

FAST_BURSTS_HINT == "add 3x 15s fast bursts"

BULLET == "{|}"

NOISE_SUBSTRINGS == {"view in the runna app", "<^>~"}

(***************************************************************************)
(* Line helpers.  A Python None result is the empty string (each helper    *)
(* returns a non-empty string when it finds something, and the callers     *)
(* test the result for truth).                                             *)
(***************************************************************************)
\* re.sub(r"\(no faster than[^)]*\)", "", s, flags=re.IGNORECASE)
RECURSIVE StripPaceCap(_)
StripPaceCap(s) ==
    LET opens == {i \in 1..Len(s) :
                    /\ AtI(s, i, "(no faster than")
                    /\ \E j \in (i + 15)..Len(s) : Ch(s, j) = ")"}
    IN  IF opens = {} THEN s
        ELSE LET i == Min(opens)
                 j == Min({k \in (i + 15)..Len(s) : Ch(s, k) = ")"})
             IN  SubSeq(s, 1, i - 1) \o StripPaceCap(From(s, j + 1))

\* re.sub(r"\b<phrase>\b.*$", "", s, flags=re.IGNORECASE) on one line
CutFromPhrase(s, phrase) ==
    LET hits == {i \in 1..Len(s) :
                    /\ AtI(s, i, phrase)
                    /\ Boundary(s, i)
                    /\ Boundary(s, i + Len(phrase))}
    IN  IF hits = {} THEN s ELSE SubSeq(s, 1, Min(hits) - 1)

\* re.sub(r"\brun at whatever pace feels truly easy!?$", "", s, flags=re.IGNORECASE)
CutTrailingEasy(s) ==
    LET phrase == "run at whatever pace feels truly easy"
        n == Len(phrase)
        hits == {i \in 1..Len(s) :
                    /\ AtI(s, i, phrase)
                    /\ Boundary(s, i)
                    /\ \/ i + n = Len(s) + 1
                       \/ i + n = Len(s) /\ Ch(s, i + n) = "!"}
    IN  IF hits = {} THEN s ELSE SubSeq(s, 1, Min(hits) - 1)

clean_line(line) ==
    LET s0 == Strip(line)
        s1 == IF StartsWith(s0, BULLET) THEN Strip(From(s0, 2)) ELSE s0
        s2 == Strip(StripPaceCap(s1))
        s3 == Strip(CutFromPhrase(s2, "this is a limit"))
        s4 == Strip(CutFromPhrase(s3, "not a target"))
        s5 == Strip(CutTrailingEasy(s4))
    IN  Strip(RStripChars(s5, SpaceChars \cup {"."}))

\* str.split(sep) for a one-character separator
RECURSIVE Split(_, _)
Split(s, sep) ==
    LET hits == {i \in 1..Len(s) : Ch(s, i) = sep}
    IN  IF hits = {} THEN <<s>>
        ELSE <<SubSeq(s, 1, Min(hits) - 1)>> \o Split(From(s, Min(hits) + 1), sep)

RECURSIVE NonEmptyStripped(_)
NonEmptyStripped(parts) ==
    IF parts = <<>> THEN <<>>
    ELSE IF Strip(Head(parts)) # "" THEN <<Strip(Head(parts))>> \o NonEmptyStripped(Tail(parts))
    ELSE NonEmptyStripped(Tail(parts))

split_on_commas(line) ==
    LET parts == NonEmptyStripped(Split(line, ","))
    IN  IF parts # <<>> THEN parts ELSE <<Strip(line)>>

\* f"{meters / 1000.0:.3f}".rstrip("0").rstrip(".") + "km"
meters_to_km_str(meters) ==
    LET frac == meters % 1000
        pad == IF frac < 10 THEN "00" ELSE IF frac < 100 THEN "0" ELSE ""
        fixed == StrOf(meters \div 1000) \o "." \o pad \o StrOf(frac)
    IN  RStripChars(RStripChars(fixed, {"0"}), {"."}) \o "km"

\* parse_distance that reads kilometres only
parse_distance_km_only(line) ==
    LET km == SearchKM(line)
    IN  IF km # 0 THEN SubSeq(line, km, KM_RE(line, km) - 1) \o "km" ELSE ""

parse_distance(line) ==
    LET km == SearchKM(line)
        m == SearchMDist(line)
    IN  IF km # 0 THEN SubSeq(line, km, KM_RE(line, km) - 1) \o "km"
        ELSE IF m # 0 THEN meters_to_km_str(IntOf(SubSeq(line, m, M_DIST_RE(line, m) - 1)))
        ELSE ""

parse_duration(line) ==
    LET sec == SearchSec(line)
        min == SearchMin(line)
    IN  IF sec # 0 THEN StrOf(IntOf(SubSeq(line, sec, SEC_RE(line, sec) - 1))) \o "s"
        ELSE IF min # 0 THEN StrOf(IntOf(SubSeq(line, min, MIN_RE(line, min) - 1))) \o "m"
        ELSE ""

is_noise(line) == \E x \in NOISE_SUBSTRINGS : Contains(Lower(line), x)

HILL_KEYWORDS ==
    {"hill", "uphill", "downhill", "jog back down", "jog downhill", "base of hill"}

is_hills_by_text(full_description) ==
    \E k \in HILL_KEYWORDS : Contains(Lower(full_description), k)

conversational_zone(workout_name, context) ==
    IF context \in {"warmup", "cooldown"} THEN "Z1-Z3 Pace"
    ELSE IF Contains(Lower(workout_name), "long run") THEN "Z1-Z2 Pace"
    ELSE "Z1-Z3 Pace"

single_line_easy_zone == "Z2-Z3 Pace"

\* str.splitlines() for "\n" line breaks
splitlines(text) ==
    IF text = "" THEN <<>>
    ELSE IF Ch(text, Len(text)) = "\n" THEN Split(SubSeq(text, 1, Len(text) - 1), "\n")
    ELSE Split(text, "\n")

\* sep.join(parts)
RECURSIVE Join(_, _)
Join(parts, sep) ==
    IF parts = <<>> THEN ""
    ELSE IF Len(parts) = 1 THEN parts[1]
    ELSE parts[1] \o sep \o Join(Tail(parts), sep)

\* \b(\d+)<unit>\b (case-sensitive): end of group 1, or 0
WordNumRe(s, i, unit) ==
    LET d == RunEnd(s, i, DigitChars)
    IN  IF /\ d > i
           /\ Boundary(s, i)
           /\ d <= Len(s)
           /\ Ch(s, d) = unit
           /\ Boundary(s, d + 1)
        THEN d ELSE 0

PrevSecRe(s, i) == WordNumRe(s, i, "s")

PrevMinRe(s, i) == WordNumRe(s, i, "m")

\* group 1 of re.search(r"\b(\d+)s\b", s), or ""
PrevSec(s) ==
    LET i == Leftmost({j \in 1..Len(s) : PrevSecRe(s, j) # 0})
    IN  Matched(s, i, PrevSecRe(s, i))

\* group 1 of re.search(r"\b(\d+)m\b", s), or ""
PrevMin(s) ==
    LET i == Leftmost({j \in 1..Len(s) : PrevMinRe(s, j) # 0})
    IN  Matched(s, i, PrevMinRe(s, i))

\* group 1 of PACE_RE.search(s), or ""
PaceOf(s) == Matched(s, SearchPace(s), PACE_RE(s, SearchPace(s)))

\* groups 1 and 2 of RANGE_RE.search(s), or <<>>
RangeOf(s) ==
    LET i == SearchRange(s)
        c == RANGE_RE(s, i)
    IN  IF i = 0 THEN <<>>
        ELSE <<SubSeq(s, i, c - 1), SubSeq(s, c + 1, ClockEnd(s, c + 1) - 1)>>

(***************************************************************************)
(* What translate() and _process_fragment() read off one text: the locals  *)
(* they compute from it.  A text is looked up in a table when it is one of *)
(* the model's input lines or fragments, so that each is analysed once.    *)
(***************************************************************************)
Range(f) == {f[i] : i \in DOMAIN f}

\* every phrase _process_fragment looks for in the lower-cased fragment
PHRASES ==
    {FAST_BURSTS_HINT, "warm up", "cool down", "walking rest",
     "running hard uphill", "hard", "uphill", "easy jog back down",
     "jog back down", "easy jog back", "jog downhill", "downhill",
     "easy jog", "easy run", "conversational", "easy"}

\* translate(), lines 458-505: the locals derived from one raw body line
LineFacts(raw) ==
    LET ln == clean_line(raw)
    IN  [ln    |-> ln,
         blank |-> Strip(raw) = "",
         noise |-> is_noise(ln),
         sep   |-> SEP_LINE_RE(ln),
         m1    |-> REPS_RE(ln),
         m2    |-> REPEAT_FOLLOWING_RE(ln),
         frags |-> split_on_commas(ln)]

\* _process_fragment(), lines 329-428: the locals derived from one fragment
FragFacts(frag) ==
    LET line == clean_line(frag)
        ll == Lower(line)
    IN  [line  |-> line,
         skip  |-> line = "" \/ is_noise(line) \/ SEP_LINE_RE(line),
         has   |-> {p \in PHRASES : Contains(ll, p)},
         dist  |-> parse_distance(line),
         dur   |-> parse_duration(line),
         rng   |-> RangeOf(line),
         pace  |-> PaceOf(line)]

(***************************************************************************)
(* Inputs: (workout_name, description) pairs.  A description is its title  *)
(* line and body lines joined by line breaks.                              *)
(***************************************************************************)
MaxBody == 2

MaxInner == 2

MaxTail == 1

SeqsUpTo(S, n) == UNION {[1..k -> S] : k \in 0..n}

SEPARATOR == "----------"

HILLS_LINE == "60s running hard uphill, 30s walking rest. Easy jog back down."

\* four fragments: a pace step, an ignored one, an unclassified one, a rest
MIXED_LINE == "1km at 5:40/km, add 3x 15s fast bursts, stretch well, 90s walking rest"

BodyLines ==
    {"", SEPARATOR, "11 reps of:", "Repeat the following 6x:",
     "400m at 4:55/km", HILLS_LINE, "3.5km warm up", "2.5km cool down",
     "stretch well", "View in the Runna app", "5km at a conversational pace",
     "This is a limit.", "add 3x 15s fast bursts", "jog downhill",
     "90s walking rest", "<^>~ Get the app", "gentle cool down", MIXED_LINE}

InnerLines == {"400m at 4:55/km", "400m at 5:40/km", HILLS_LINE}

TailLines ==
    {"90s walking rest", "2.5km cool down", "5km at a conversational pace", "jog downhill"}

SingleLines ==
    {"5km easy run", "3km at 5:30/km", "Long Run 11km", "easy shakeout",
     "12km easy run at a conversational pace (no faster than 6:00/km). This is a limit, not a target - run at whatever pace feels truly easy!"}

PlainHeading == [name |-> "Rolling 400s", first |-> "Rolling 400s"]

HillsHeading == [name |-> "Hills 8km", first |-> "Hills 8km"]

\* a hill keyword in the title only
HillsTitleOnly == [name |-> "Hills 8km", first |-> "Workout"]

Headings ==
    {PlainHeading, HillsHeading, HillsTitleOnly,
     [name |-> "Easy Run 12km", first |-> "Easy Run 12km"],
     [name |-> "Long Run 11km", first |-> ""]}

Input(name, lines) == [name |-> name, text |-> Join(lines, "\n")]

\* every short body over the whole vocabulary
ShortInputs ==
    {Input(h.name, <<h.first>> \o body) :
        h \in {PlainHeading, HillsHeading}, body \in SeqsUpTo(BodyLines, MaxBody)}

\* a repeat block: header, optional opening separator, inner lines, an
\* optional closing line (separator, blank, a line that cleans to nothing,
\* a second header, or a blank line and then the header of a second block
\* or a warm up),
\* lines after it
RepeatInputs ==
    {Input(h.name, <<h.first, "Repeat the following 6x:">> \o open \o inner \o close \o tail) :
        h \in {PlainHeading, HillsHeading},
        open \in {<<>>, <<SEPARATOR>>},
        inner \in SeqsUpTo(InnerLines, MaxInner),
        close \in {<<>>, <<SEPARATOR>>, <<"">>, <<"This is a limit.">>, <<"11 reps of:">>,
                   <<"", "11 reps of:">>, <<"", "3.5km warm up">>},
        tail \in SeqsUpTo(TailLines, MaxTail)}

\* no description, a title line only, a title line and one line
SingleInputs ==
    {Input(h.name, <<>>) : h \in Headings}
    \cup {Input(h.name, <<l>>) : h \in Headings, l \in SingleLines}
    \cup {Input(h.name, <<h.first, l>>) : h \in Headings, l \in SingleLines}

Inputs == ShortInputs \cup RepeatInputs \cup SingleInputs

LineTexts == BodyLines \cup InnerLines \cup TailLines \cup SingleLines

LineTable == [raw \in LineTexts |-> LineFacts(raw)]

FragTexts == UNION {Range(LineTable[raw].frags) : raw \in LineTexts}

FragTable == [frag \in FragTexts |-> FragFacts(frag)]

LineFactsOf(raw) == IF raw \in LineTexts THEN LineTable[raw] ELSE LineFacts(raw)

FragFactsOf(frag) == IF frag \in FragTexts THEN FragTable[frag] ELSE FragFacts(frag)

\* `phrase in ll` for the fragment with facts F
Has(F, phrase) ==
    IF phrase \in PHRASES THEN phrase \in F.has ELSE Contains(Lower(F.line), phrase)

(***************************************************************************)
(* RunnaTranslatorStateMachine.  m is the object: a record of its fields.  *)
(* A step is its text and the identity id() of the string object; the      *)
(* objects are numbered as they are created, so two objects alive at the   *)
(* same time never share an identity.  repeat_group is <<>> for None and   *)
(* <<g>> for the group g.                                                  *)
(***************************************************************************)
NORMAL == "NORMAL"

REPEAT_OPEN == "REPEAT_OPEN"

REPEAT_SEP_WAIT_OPEN == "REPEAT_SEP_WAIT_OPEN"

REPEAT_SEP_CAPTURE == "REPEAT_SEP_CAPTURE"

REPEAT_STATES == {REPEAT_OPEN, REPEAT_SEP_CAPTURE, REPEAT_SEP_WAIT_OPEN}

Group(title, steps) == [title |-> title, steps |-> steps]

DEFAULT_TEXT == "Main Set\n- 60m Z1-Z2 Pace"

\* the literal "- 2m Z1-Z2 Pace" of _add_hills_fallback_if_needed: one object
HILLS_FALLBACK_STEP == [text |-> "- 2m Z1-Z2 Pace", id |-> 0]

\* __init__ with the hill keywords looked for in the title as well
NewMachineHillsByTitle(workout_name, full_description) ==
    [workout_name |-> workout_name,
     hills_mode |-> is_hills_by_text(workout_name) \/ is_hills_by_text(full_description),
     groups |-> <<>>,
     current |-> Group("Main Set", <<>>),
     partial |-> FALSE,
     state |-> NORMAL,
     repeat_group |-> <<>>,
     repeat_first_step_pending |-> FALSE,
     hills_fallback_added |-> FALSE,
     cooldown_steps |-> {},
     next_id |-> 1]

\* __init__
NewMachine(workout_name, full_description) ==
    [workout_name |-> workout_name,
     hills_mode |-> is_hills_by_text(full_description),
     groups |-> <<>>,
     current |-> Group("Main Set", <<>>),
     partial |-> FALSE,
     state |-> NORMAL,
     repeat_group |-> <<>>,
     repeat_first_step_pending |-> FALSE,
     hills_fallback_added |-> FALSE,
     cooldown_steps |-> {},
     next_id |-> 1]

\* _flush_current putting the group in front of the emitted groups
_flush_current_in_front(m) ==
    [m EXCEPT !.groups = IF m.current.steps # <<>> THEN <<m.current>> \o @ ELSE @,
              !.current = Group("Main Set", <<>>)]

\* _flush_current leaving the new current group under the old title
_flush_current_keeping_title(m) ==
    [m EXCEPT !.groups = IF m.current.steps # <<>> THEN Append(@, m.current) ELSE @,
              !.current = Group(m.current.title, <<>>)]

\* _flush_current that also clears the partial flag
_flush_current_clearing_partial(m) ==
    [m EXCEPT !.groups = IF m.current.steps # <<>> THEN Append(@, m.current) ELSE @,
              !.current = Group("Main Set", <<>>),
              !.partial = FALSE]

_flush_current(m) ==
    [m EXCEPT !.groups = IF m.current.steps # <<>> THEN Append(@, m.current) ELSE @,
              !.current = Group("Main Set", <<>>)]

\* _start_group that flushes and leaves the new group titled 'Main Set'
_start_group_untitled(m, title) == _flush_current(m)

\* _start_group retitling the current group in place
_start_group_retitling(m, title) == [m EXCEPT !.current.title = title]

_start_group(m, title) ==
    [_flush_current(m) EXCEPT !.current = Group(title, <<>>)]

\* _start_repeat_group without the flush of the current group
_start_repeat_group_without_flush(m, reps) ==
    [m EXCEPT
        !.repeat_group = <<Group("Main Set " \o StrOf(reps) \o "x", <<>>)>>,
        !.repeat_first_step_pending = TRUE]

_start_repeat_group(m, reps) ==
    [_flush_current(m) EXCEPT
        !.repeat_group = <<Group("Main Set " \o StrOf(reps) \o "x", <<>>)>>,
        !.repeat_first_step_pending = TRUE]

\* _close_repeat_group without the test for steps
_close_repeat_group_keeping_empty(m) ==
    [m EXCEPT !.groups = IF m.repeat_group # <<>>
                         THEN Append(@, m.repeat_group[1]) ELSE @,
              !.repeat_group = <<>>,
              !.repeat_first_step_pending = FALSE]

_close_repeat_group(m) ==
    [m EXCEPT !.groups = IF m.repeat_group # <<>> /\ m.repeat_group[1].steps # <<>>
                         THEN Append(@, m.repeat_group[1]) ELSE @,
              !.repeat_group = <<>>,
              !.repeat_first_step_pending = FALSE]

\* _add_hills_fallback_if_needed without the guard hills_fallback_added
_add_hills_fallback_each_time(m) ==
    IF m.hills_mode
    THEN [m EXCEPT !.current.steps = Append(@, HILLS_FALLBACK_STEP),
                   !.hills_fallback_added = TRUE]
    ELSE m

_add_hills_fallback_if_needed(m) ==
    IF m.hills_mode /\ ~m.hills_fallback_added
    THEN [m EXCEPT !.current.steps = Append(@, HILLS_FALLBACK_STEP),
                   !.hills_fallback_added = TRUE]
    ELSE m

\* _add_step putting the step in front of the steps of its group
_add_step_in_front(m, step, into_repeat) ==
    IF into_repeat /\ m.repeat_group # <<>>
    THEN [m EXCEPT !.repeat_group[1].steps = <<step>> \o @,
                   !.repeat_first_step_pending = FALSE]
    ELSE [m EXCEPT !.current.steps = <<step>> \o @]

\* _add_step whose rewrite stays pending after it has fired
_add_step_rewriting_every_step(m, step, into_repeat) ==
    IF into_repeat /\ m.repeat_group # <<>>
    THEN IF m.hills_mode /\ m.repeat_first_step_pending
         THEN [m EXCEPT !.repeat_group[1].steps =
                            Append(@, [text |-> "- run uphill " \o From(step.text, 3),
                                       id |-> m.next_id]),
                        !.next_id = @ + 1]
         ELSE [m EXCEPT !.repeat_group[1].steps = Append(@, step)]
    ELSE [m EXCEPT !.current.steps = Append(@, step)]

\* the rewritten step is a new string object
_add_step(m, step, into_repeat) ==
    IF into_repeat /\ m.repeat_group # <<>>
    THEN IF m.hills_mode /\ m.repeat_first_step_pending
         THEN LET text == IF StartsWith(step.text, "- ")
                          THEN "- run uphill " \o From(step.text, 3)
                          ELSE "run uphill " \o step.text
              IN  [m EXCEPT !.repeat_group[1].steps =
                                Append(@, [text |-> text, id |-> m.next_id]),
                            !.next_id = @ + 1,
                            !.repeat_first_step_pending = FALSE]
         ELSE [m EXCEPT !.repeat_group[1].steps = Append(@, step)]
    ELSE [m EXCEPT !.current.steps = Append(@, step)]

\* step = f"..." creates the object; then self._add_step(step, into_repeat)
AddNewStep(m, text, into_repeat) ==
    _add_step([m EXCEPT !.next_id = @ + 1], [text |-> text, id |-> m.next_id], into_repeat)

Or(a, b) == IF a # "" THEN a ELSE b

\* JogDur reading the current group even inside a repeat block
JogDurFromCurrent(m, into_repeat) ==
    LET prev_steps == m.current.steps
        prev == prev_steps[Len(prev_steps)].text
    IN  IF prev_steps = <<>> THEN "120s"
        ELSE IF PrevSec(prev) # "" THEN StrOf(IntOf(PrevSec(prev)) * 2) \o "s"
        ELSE IF PrevMin(prev) # "" THEN StrOf(IntOf(PrevMin(prev)) * 2) \o "m"
        ELSE "120s"

\* lines 374-383: the jog-downhill duration from the previous step
JogDur(m, into_repeat) ==
    LET prev_steps == IF into_repeat /\ m.repeat_group # <<>>
                      THEN m.repeat_group[1].steps ELSE m.current.steps
        prev == prev_steps[Len(prev_steps)].text
        ms == PrevSec(prev)
        mm == PrevMin(prev)
    IN  IF prev_steps = <<>> THEN "120s"
        ELSE IF ms # "" THEN StrOf(IntOf(ms) * 2) \o "s"
        ELSE IF mm # "" THEN StrOf(IntOf(mm) * 2) \o "m"
        ELSE "120s"

\* the no-match branch without self.partial = True
UnrecognizedSilently(m) == _add_hills_fallback_if_needed(m)

\* lines 434-436: no rule matched
Unrecognized(m) == _add_hills_fallback_if_needed([m EXCEPT !.partial = TRUE])

\* lines 330-436: the branches of _process_fragment, F the fragment's facts
Classify(m, F, allow_group_change, into_repeat) ==
    LET dist == F.dist
        dur == F.dur
    IN  IF F.skip THEN m
        ELSE IF Has(F, FAST_BURSTS_HINT) THEN m
        ELSE IF allow_group_change /\ Has(F, "warm up")
        THEN AddNewStep(_start_group(m, "Warmup"),
                        "- " \o Or(dist, "2m") \o " ramp "
                             \o conversational_zone(m.workout_name, "warmup"),
                        FALSE)
        ELSE IF allow_group_change /\ Has(F, "cool down")
        THEN LET m1 == _start_group(m, "Cooldown")
             IN  [AddNewStep(m1, "- " \o Or(dist, "2m") \o " ramp Z3-Z1 Pace", FALSE)
                    EXCEPT !.cooldown_steps = @ \cup {m1.next_id}]
        ELSE IF Has(F, "walking rest")
        THEN AddNewStep(m, "- " \o Or(dur, "90s") \o " Z1 Pace", into_repeat)
        ELSE IF m.hills_mode /\ (Has(F, "running hard uphill")
                                    \/ (Has(F, "hard") /\ Has(F, "uphill")))
        THEN AddNewStep(m, "- " \o Or(dur, "2m") \o " Z3-Z5 HR", into_repeat)
        ELSE IF m.hills_mode /\ (\/ Has(F, "easy jog back down")
                                 \/ Has(F, "jog back down")
                                 \/ Has(F, "easy jog back")
                                 \/ Has(F, "jog downhill")
                                 \/ Has(F, "downhill"))
        THEN AddNewStep(m, "- Press lap, Jog Downhill " \o JogDur(m, into_repeat)
                               \o " Z1-Z2 Pace", into_repeat)
        ELSE IF (Has(F, "easy jog") \/ Has(F, "easy run")) /\ (dist # "" \/ dur # "")
        THEN IF dist # ""
             THEN AddNewStep(m, "- " \o dist \o " Z1-Z2 Pace", into_repeat)
             ELSE AddNewStep(m, "- " \o dur \o " Z1-Z2 Pace", into_repeat)
        ELSE IF dist # "" /\ F.rng # <<>>
        THEN AddNewStep(m, "- " \o dist \o " " \o F.rng[1] \o "/km PACE ("
                               \o F.rng[1] \o "-" \o F.rng[2] \o "/km) Pace", into_repeat)
        ELSE IF dist # "" /\ F.pace # ""
        THEN AddNewStep(m, "- " \o dist \o " " \o F.pace \o "/km Pace", into_repeat)
        ELSE IF dist # "" /\ Has(F, "conversational")
        THEN AddNewStep(m, "- " \o dist \o " "
                               \o conversational_zone(m.workout_name, "main"), into_repeat)
        ELSE IF dist # "" /\ (Has(F, "easy run")
                                \/ (StartsWith(Lower(m.workout_name), "easy run")
                                        /\ Has(F, "easy")))
        THEN AddNewStep(m, "- " \o dist \o " " \o single_line_easy_zone, into_repeat)
        ELSE IF dist # ""
        THEN AddNewStep(m, "- " \o dist \o " Z1-Z2 Pace", into_repeat)
        ELSE IF dur # ""
        THEN AddNewStep(m, "- " \o dur \o " Z1-Z2 Pace", into_repeat)
        ELSE Unrecognized(m)

_process_fragment(m, frag, allow_group_change, into_repeat) ==
    Classify(m, FragFactsOf(frag), allow_group_change, into_repeat)

\* for frag in split_on_commas(ln): self._process_fragment(frag, ...)
RECURSIVE ProcessFragments(_, _, _, _)
ProcessFragments(m, frags, allow_group_change, into_repeat) ==
    IF frags = <<>> THEN m
    ELSE ProcessFragments(_process_fragment(m, Head(frags), allow_group_change, into_repeat),
                          Tail(frags), allow_group_change, into_repeat)

_postprocess_trailing_cooldown(m) ==
    LET n == Len(m.groups)
        last_group == m.groups[n]
        k == Len(last_group.steps)
        step == last_group.steps[k]
    IN  IF m.groups = <<>> THEN m
        ELSE IF last_group.title # "Main Set" THEN m
        ELSE IF last_group.steps = <<>> THEN m
        ELSE IF step.id \notin m.cooldown_steps THEN m
        ELSE [m EXCEPT !.groups =
                 (IF k = 1 THEN SubSeq(@, 1, n - 1)
                  ELSE [@ EXCEPT ![n].steps = SubSeq(last_group.steps, 1, k - 1)])
                 \o <<Group("Cooldown", <<step>>)>>]

\* RenderLines without the blank line between two groups
RECURSIVE RenderLinesRunTogether(_, _)
RenderLinesRunTogether(gs, gi) ==
    IF gi > Len(gs) THEN <<>>
    ELSE <<gs[gi].title>>
         \o [i \in 1..Len(gs[gi].steps) |-> gs[gi].steps[i].text]
         \o RenderLinesRunTogether(gs, gi + 1)

\* lines 521-526: the lines of the output
RECURSIVE RenderLines(_, _)
RenderLines(gs, gi) ==
    IF gi > Len(gs) THEN <<>>
    ELSE (IF gi > 1 THEN <<"">> ELSE <<>>)
         \o <<gs[gi].title>>
         \o [i \in 1..Len(gs[gi].steps) |-> gs[gi].steps[i].text]
         \o RenderLines(gs, gi + 1)

\* Render returning the machine's flag with the default text
RenderDefaultKeepingFlag(m) ==
    LET out == RenderLines(m.groups, 1)
    IN  IF out = <<>> THEN [text |-> DEFAULT_TEXT, partial |-> m.partial]
        ELSE [text |-> RStrip(Join(out, "\n")), partial |-> m.partial]

\* lines 520-531: (text, partial)
Render(m) ==
    LET out == RenderLines(m.groups, 1)
    IN  IF out = <<>> THEN [text |-> DEFAULT_TEXT, partial |-> TRUE]
        ELSE [text |-> RStrip(Join(out, "\n")), partial |-> m.partial]

(***************************************************************************)
(* translate_workout_to_intervals_text(workout_name, full_description):    *)
(* sm is the state machine object, pc the position in translate(),         *)
(* body_lines and pos the loop over the body, result the returned pair.    *)
(* log is the sequence of values sm has taken in this call, previous what  *)
(* an earlier call on the same arguments went through and returned.        *)
(***************************************************************************)
VARIABLES workout_name, full_description, sm, pc, body_lines, pos, result,
          log, previous, ics, run

vars == <<workout_name, full_description, sm, pc, body_lines, pos, result,
          log, previous, ics, run>>

NoResult == [text |-> "", partial |-> FALSE]

\* parse_ics_events has not been called
NoParse == [pc |-> "idle"]

\* run_sync has not been called
NoRun == [pc |-> "idle"]

\* sm = RunnaTranslatorStateMachine(workout_name, description)
Init ==
    \E d \in Inputs :
        /\ workout_name = d.name
        /\ full_description = d.text
        /\ sm = NewMachine(d.name, d.text)
        /\ pc = "constructed"
        /\ body_lines = <<>>
        /\ pos = 0
        /\ result = NoResult
        /\ log = <<NewMachine(d.name, d.text)>>
        /\ previous = <<>>
        /\ ics = NoParse
        /\ run = NoRun

Return(r) ==
    /\ result' = r
    /\ pc' = "done"

\* lines 439-441: no line at all
TranslateEmpty ==
    /\ pc = "constructed"
    /\ splitlines(full_description) = <<>>
    /\ Return([text |-> DEFAULT_TEXT, partial |-> TRUE])
    /\ UNCHANGED <<workout_name, full_description, sm, body_lines, pos, log, previous, ics, run>>

\* the single-line branch asking for "easy" in the line under an easy-run title
TranslateSingleLineNeedingEasy ==
    /\ pc = "constructed"
    /\ Len(splitlines(full_description)) = 1
    /\ LET first_line == splitlines(full_description)[1]
           dist == parse_distance(first_line)
           ll == Lower(first_line)
       IN  IF dist # "" /\ (Contains(ll, "easy") \/ Contains(ll, "conversational"))
           THEN Return([text |-> "Main Set\n- " \o dist \o " " \o single_line_easy_zone,
                        partial |-> FALSE])
           ELSE Return([text |-> DEFAULT_TEXT, partial |-> TRUE])
    /\ UNCHANGED <<workout_name, full_description, sm, body_lines, pos, log, previous, ics, run>>

\* lines 448-455: the title line only
TranslateSingleLine ==
    /\ pc = "constructed"
    /\ Len(splitlines(full_description)) = 1
    /\ LET first_line == splitlines(full_description)[1]
           dist == parse_distance(first_line)
           ll == Lower(first_line)
       IN  IF dist # "" /\ (Contains(ll, "easy") \/ Contains(ll, "conversational"))
           THEN Return([text |-> "Main Set\n- " \o dist \o " " \o single_line_easy_zone,
                        partial |-> FALSE])
           ELSE IF StartsWith(Lower(sm.workout_name), "easy run") /\ dist # ""
           THEN Return([text |-> "Main Set\n- " \o dist \o " " \o single_line_easy_zone,
                        partial |-> FALSE])
           ELSE Return([text |-> DEFAULT_TEXT, partial |-> TRUE])
    /\ UNCHANGED <<workout_name, full_description, sm, body_lines, pos, log, previous, ics, run>>

\* lines 444-457: enter the loop over the body lines
TranslateBody ==
    /\ pc = "constructed"
    /\ Len(splitlines(full_description)) > 1
    /\ body_lines' = Tail(splitlines(full_description))
    /\ pos' = 1
    /\ pc' = "loop"
    /\ UNCHANGED <<workout_name, full_description, sm, result, log, previous, ics, run>>

InLoop == pc = "loop" /\ pos <= Len(body_lines)

Line == LineFactsOf(body_lines[pos])

NextLine(m) ==
    /\ sm' = m
    /\ log' = Append(log, m)
    /\ pos' = pos + 1
    /\ UNCHANGED <<workout_name, full_description, pc, body_lines, result, previous, ics, run>>

\* LineKind with no branch for a header read inside a repeat block
LineKindRejectingNestedHeader(L, state) ==
    IF L.blank /\ state \in REPEAT_STATES THEN "blank_in_repeat"
    ELSE IF L.ln = "" /\ state \in {REPEAT_OPEN, REPEAT_SEP_CAPTURE} THEN "empty_in_repeat"
    ELSE IF L.ln = "" \/ L.noise THEN "skipped"
    ELSE IF L.sep THEN "separator"
    ELSE IF state = NORMAL /\ (L.m1 # "" \/ L.m2 # "") THEN "header"
    ELSE IF L.m1 # "" \/ L.m2 # "" THEN "nested_header"
    ELSE IF state \in REPEAT_STATES THEN "repeat_content"
    ELSE "normal_content"

\* LineKind with the header test made in every state
LineKindHeaderInAnyState(L, state) ==
    IF L.blank /\ state \in REPEAT_STATES THEN "blank_in_repeat"
    ELSE IF L.ln = "" /\ state \in {REPEAT_OPEN, REPEAT_SEP_CAPTURE} THEN "empty_in_repeat"
    ELSE IF L.ln = "" \/ L.noise THEN "skipped"
    ELSE IF L.sep THEN "separator"
    ELSE IF L.m1 # "" \/ L.m2 # "" THEN "header"
    ELSE IF state \in REPEAT_STATES THEN "repeat_content"
    ELSE "normal_content"

\* lines 458-511: the branch of the loop body taken for the line with facts L
LineKind(L, state) ==
    IF L.blank /\ state \in REPEAT_STATES THEN "blank_in_repeat"
    ELSE IF L.ln = "" /\ state \in {REPEAT_OPEN, REPEAT_SEP_CAPTURE} THEN "empty_in_repeat"
    ELSE IF L.ln = "" \/ L.noise THEN "skipped"
    ELSE IF L.sep THEN "separator"
    ELSE IF state = NORMAL /\ (L.m1 # "" \/ L.m2 # "") THEN "header"
    ELSE IF state \in REPEAT_STATES THEN "repeat_content"
    ELSE "normal_content"

\* the blank-line branch closing the group but staying in the repeat state
OnBlankInRepeatStayingOpen(L) ==
    /\ LineKind(L, sm.state) = "blank_in_repeat"
    /\ NextLine(_close_repeat_group(sm))

\* lines 462-469
OnBlankInRepeat(L) ==
    /\ LineKind(L, sm.state) = "blank_in_repeat"
    /\ NextLine([_close_repeat_group(sm) EXCEPT !.state = NORMAL])

\* lines 474-477
OnEmptyInRepeat(L) ==
    /\ LineKind(L, sm.state) = "empty_in_repeat"
    /\ NextLine([_close_repeat_group(sm) EXCEPT !.state = NORMAL])

\* lines 479-480
OnSkipped(L) ==
    /\ LineKind(L, sm.state) = "skipped"
    /\ NextLine(sm)

\* OnSeparator where the second separator leaves the block open
OnSeparatorNeverClosing(L) ==
    /\ LineKind(L, sm.state) = "separator"
    /\ NextLine(IF sm.state = REPEAT_SEP_WAIT_OPEN
                THEN [sm EXCEPT !.state = REPEAT_SEP_CAPTURE]
                ELSE sm)

\* OnSeparator where a separator closes the block in REPEAT_OPEN as well
OnSeparatorClosingOpenRepeat(L) ==
    /\ LineKind(L, sm.state) = "separator"
    /\ NextLine(IF sm.state = REPEAT_SEP_WAIT_OPEN
                THEN [sm EXCEPT !.state = REPEAT_SEP_CAPTURE]
                ELSE IF sm.state \in {REPEAT_SEP_CAPTURE, REPEAT_OPEN}
                THEN [_close_repeat_group(sm) EXCEPT !.state = NORMAL]
                ELSE sm)

\* lines 482-488
OnSeparator(L) ==
    /\ LineKind(L, sm.state) = "separator"
    /\ NextLine(IF sm.state = REPEAT_SEP_WAIT_OPEN
                THEN [sm EXCEPT !.state = REPEAT_SEP_CAPTURE]
                ELSE IF sm.state = REPEAT_SEP_CAPTURE
                THEN [_close_repeat_group(sm) EXCEPT !.state = NORMAL]
                ELSE sm)

\* lines 491-498
OnHeader(L) ==
    /\ LineKind(L, sm.state) = "header"
    /\ NextLine([_start_repeat_group(sm, IntOf(Or(L.m1, L.m2)))
                    EXCEPT !.state = REPEAT_SEP_WAIT_OPEN])

\* OnRepeatContent with the group-changing rules left on
OnRepeatContentChangingGroups(L) ==
    /\ LineKind(L, sm.state) = "repeat_content"
    /\ NextLine(ProcessFragments(
                    IF sm.state = REPEAT_SEP_WAIT_OPEN
                    THEN [sm EXCEPT !.state = REPEAT_OPEN] ELSE sm,
                    L.frags, TRUE, TRUE))

\* OnRepeatContent that keeps waiting for a separator
OnRepeatContentStillWaiting(L) ==
    /\ LineKind(L, sm.state) = "repeat_content"
    /\ NextLine(ProcessFragments(sm, L.frags, FALSE, TRUE))

\* lines 501-507
OnRepeatContent(L) ==
    /\ LineKind(L, sm.state) = "repeat_content"
    /\ NextLine(ProcessFragments(
                    IF sm.state = REPEAT_SEP_WAIT_OPEN
                    THEN [sm EXCEPT !.state = REPEAT_OPEN] ELSE sm,
                    L.frags, FALSE, TRUE))

\* lines 509-511
OnNormalContent(L) ==
    /\ LineKind(L, sm.state) = "normal_content"
    /\ NextLine(ProcessFragments(sm, L.frags, TRUE, FALSE))

BlankLineInRepeat == InLoop /\ OnBlankInRepeat(Line)

EmptyLineInRepeat == InLoop /\ OnEmptyInRepeat(Line)

SkipLine == InLoop /\ OnSkipped(Line)

SeparatorLine == InLoop /\ OnSeparator(Line)

RepsHeaderLine == InLoop /\ OnHeader(Line)

RepeatContentLine == InLoop /\ OnRepeatContent(Line)

NormalContentLine == InLoop /\ OnNormalContent(Line)

\* AfterLoop flushing the current group before it closes the repeat group
AfterLoopFlushingFirst(m) ==
    _postprocess_trailing_cooldown(
        IF m.state \in REPEAT_STATES THEN _close_repeat_group(_flush_current(m))
        ELSE _flush_current(m))

\* lines 513-518: after the loop
AfterLoop(m) ==
    _postprocess_trailing_cooldown(
        _flush_current(IF m.state \in REPEAT_STATES THEN _close_repeat_group(m) ELSE m))

\* lines 513-531
Finish ==
    /\ pc = "loop"
    /\ pos > Len(body_lines)
    /\ sm' = AfterLoop(sm)
    /\ log' = Append(log, AfterLoop(sm))
    /\ Return(Render(AfterLoop(sm)))
    /\ UNCHANGED <<workout_name, full_description, body_lines, pos, previous, ics, run>>

Next ==
    \/ TranslateEmpty
    \/ TranslateSingleLine
    \/ TranslateBody
    \/ BlankLineInRepeat
    \/ EmptyLineInRepeat
    \/ SkipLine
    \/ SeparatorLine
    \/ RepsHeaderLine
    \/ RepeatContentLine
    \/ NormalContentLine
    \/ Finish

Spec == Init /\ [][Next]_vars

\* one machine object shared by the calls: its flags outlive a call
SharedMachine(name, description) ==
    [NewMachine(name, description) EXCEPT !.partial = sm.partial,
                                          !.hills_fallback_added = sm.hills_fallback_added]

\* lines 589-591: sm = RunnaTranslatorStateMachine(workout_name, full_description)
translate_workout_to_intervals_text(name, description) == NewMachine(name, description)

\* the caller translates the same (title, description) a second time
TranslateAgain ==
    /\ pc = "done"
    /\ previous = <<>>
    /\ previous' = <<[log |-> log, result |-> result]>>
    /\ sm' = translate_workout_to_intervals_text(workout_name, full_description)
    /\ log' = <<sm'>>
    /\ pc' = "constructed"
    /\ body_lines' = <<>>
    /\ pos' = 0
    /\ result' = NoResult
    /\ UNCHANGED <<workout_name, full_description, ics, run>>

NextTwice == Next \/ TranslateAgain

SpecTwice == Init /\ [][NextTwice]_vars

(***************************************************************************)
(* The same call on descriptions whose one body line carries a bare        *)
(* '<n>m' (or seconds alone), read in NORMAL or right after a reps header. *)
(***************************************************************************)
MeterLines ==
    {"5m walking rest", "3m running hard uphill", "400m warm up", "250m cool down",
     "250m easy jog", "1500m easy run", "5m", "12m", "45s"}

MeterInputs ==
    {Input(h.name, <<h.first>> \o header \o <<l>>) :
        h \in {PlainHeading, HillsHeading},
        header \in {<<>>, <<"11 reps of:">>},
        l \in MeterLines}

MetersInit ==
    \E d \in MeterInputs :
        /\ workout_name = d.name
        /\ full_description = d.text
        /\ sm = NewMachine(d.name, d.text)
        /\ pc = "constructed"
        /\ body_lines = <<>>
        /\ pos = 0
        /\ result = NoResult
        /\ log = <<NewMachine(d.name, d.text)>>
        /\ previous = <<>>
        /\ ics = NoParse
        /\ run = NoRun

MetersNext ==
    \/ TranslateBody
    \/ RepsHeaderLine
    \/ RepeatContentLine
    \/ NormalContentLine
    \/ Finish

MetersSpec == MetersInit /\ [][MetersNext]_vars

(***************************************************************************)
(* The calendar feed parser (parse_ics_events) as a state machine over the *)
(* feed text: one action per branch of its loop over the unfolded lines.   *)
(***************************************************************************)
\* str.replace(old, new)
RECURSIVE Replace(_, _, _)
Replace(s, old, new) ==
    LET hits == {i \in 1..(Len(s) - Len(old) + 1) : At(s, i, old)}
    IN  IF hits = {} THEN s
        ELSE SubSeq(s, 1, Min(hits) - 1) \o new
                 \o Replace(From(s, Min(hits) + Len(old)), old, new)

\* the loop of unfold_ics_lines: out after the lines lns
RECURSIVE UnfoldInto(_, _)
UnfoldInto(out, lns) ==
    IF lns = <<>> THEN out
    ELSE IF out # <<>> /\ (StartsWith(Head(lns), " ") \/ StartsWith(Head(lns), "\t"))
         THEN UnfoldInto([out EXCEPT ![Len(out)] = @ \o From(Head(lns), 2)], Tail(lns))
         ELSE UnfoldInto(Append(out, RStripChars(Head(lns), {"\r", "\n"})), Tail(lns))

unfold_ics_lines(text) == UnfoldInto(<<>>, splitlines(text))

ics_unescape(s) ==
    Replace(Replace(Replace(Replace(Replace(s, "\\n", "\n"), "\\,", ","),
                            "\\;", ";"), "\\:", ":"), "\\\\", "\\")

\* calendar.isleap
IsLeap(y) == y % 4 = 0 /\ (y % 100 # 0 \/ y % 400 = 0)

DaysInMonth(y, m) ==
    IF m = 2 THEN (IF IsLeap(y) THEN 29 ELSE 28)
    ELSE IF m \in {4, 6, 9, 11} THEN 30 ELSE 31

None == [kind |-> "None"]

ValueError == [kind |-> "ValueError"]

\* dt.date(y, m, d): raises ValueError outside the calendar
Date(y, m, d) ==
    IF y \in 1..9999 /\ m \in 1..12 /\ d \in 1..DaysInMonth(y, m)
    THEN [kind |-> "date", year |-> y, month |-> m, day |-> d]
    ELSE ValueError

\* v[:8].isdigit() with len(v) >= 8
EightDigits(v) == Len(v) >= 8 /\ \A i \in 1..8 : Ch(v, i) \in DigitChars

parse_dtstart_date(raw_value) ==
    IF EightDigits(Strip(raw_value))
    THEN Date(IntOf(SubSeq(Strip(raw_value), 1, 4)),
              IntOf(SubSeq(Strip(raw_value), 5, 6)),
              IntOf(SubSeq(Strip(raw_value), 7, 8)))
    ELSE None

IcsEvent(uid, summary, description, dtstart_date) ==
    [uid |-> uid, summary |-> summary, description |-> description,
     dtstart_date |-> dtstart_date]

\* cur = {}
EmptyDict == [k \in {} |-> ""]

\* cur.get(key, "")
Get(cur, key) == IF key \in DOMAIN cur THEN cur[key] ELSE ""

\* cur[key] = v
Put(cur, key, v) == [k \in DOMAIN cur \cup {key} |-> IF k = key THEN v ELSE cur[k]]

BEGIN_VEVENT == "BEGIN:VEVENT"

END_VEVENT == "END:VEVENT"

\* k, v = line.split(":", 1); key = k.split(";", 1)[0].strip()
KeyOf(line) == Strip(Split(Split(line, ":")[1], ";")[1])

ValueOf(line) == From(line, Len(Split(line, ":")[1]) + 2)

MaxBlocks == 2

\* pieces of a feed: whole events, blocks lacking a property, stray lines
IcsSegments ==
    { <<BEGIN_VEVENT, "UID:test-1", "DTSTART;VALUE=DATE:20260121",
        "DESCRIPTION:3km at 5:30/km\\n2km cool down", END_VEVENT>>,
      <<BEGIN_VEVENT, "DTSTART:20260122T070000Z", "SUMMARY:Rolling 400s\\, fast",
        "UID:test-2", END_VEVENT>>,
      <<BEGIN_VEVENT, "DTSTART:20260123", END_VEVENT>>,
      <<BEGIN_VEVENT, "UID:test-4", END_VEVENT>>,
      <<END_VEVENT>>,
      <<"UID:test-6", "DTSTART:20260126">>,
      <<BEGIN_VEVENT, "UID:test-7", "DTSTART:20260127", "X-NOTE">>,
      <<BEGIN_VEVENT, "UID: ", "DTSTART:20260128", END_VEVENT>>,
      <<BEGIN_VEVENT, "UID:test-9", "DTSTART:TBD", END_VEVENT>>,
      <<BEGIN_VEVENT, "UID:test-10", "DTSTART:20260230", END_VEVENT>>,
      <<BEGIN_VEVENT, "UID:test", " -11", "DTSTART:20260131", END_VEVENT>>,
      <<BEGIN_VEVENT, END_VEVENT>> }

RECURSIVE Concat(_)
Concat(seqs) == IF seqs = <<>> THEN <<>> ELSE Head(seqs) \o Concat(Tail(seqs))

IcsFeeds == {Join(Concat(segs), "\n") : segs \in SeqsUpTo(IcsSegments, MaxBlocks)}

\* the translator is not running
TranslatorIdle ==
    /\ workout_name = ""
    /\ full_description = ""
    /\ sm = NewMachine("", "")
    /\ pc = "idle"
    /\ body_lines = <<>>
    /\ pos = 0
    /\ result = NoResult
    /\ log = <<>>
    /\ previous = <<>>

translator ==
    <<workout_name, full_description, sm, pc, body_lines, pos, result, log, previous>>

\* lines 120-123
ParseStart(text) ==
    [pc |-> "loop", text |-> text, lines |-> unfold_ics_lines(text),
     i |-> 1, cur |-> EmptyDict, in_event |-> FALSE, events |-> <<>>]

\* lines 126-129
OnBeginLine(p) == [p EXCEPT !.cur = EmptyDict, !.in_event = TRUE, !.i = @ + 1]

\* lines 133-141 for an open block: the event appended, if any
ClosedBlock(p) ==
    IF parse_dtstart_date(Get(p.cur, "DTSTART")) = ValueError
    THEN [p EXCEPT !.pc = "raised"]
    ELSE IF Strip(Get(p.cur, "UID")) # ""
            /\ parse_dtstart_date(Get(p.cur, "DTSTART")) # None
         THEN [p EXCEPT !.events =
                   Append(@, IcsEvent(Strip(Get(p.cur, "UID")),
                                      Strip(ics_unescape(Get(p.cur, "SUMMARY"))),
                                      Strip(ics_unescape(Get(p.cur, "DESCRIPTION"))),
                                      parse_dtstart_date(Get(p.cur, "DTSTART")))),
                          !.in_event = FALSE, !.i = @ + 1]
         ELSE [p EXCEPT !.in_event = FALSE, !.i = @ + 1]

\* lines 131-142
OnEndLine(p) ==
    IF p.in_event THEN ClosedBlock(p) ELSE [p EXCEPT !.in_event = FALSE, !.i = @ + 1]

\* line 144
IsSkipped(p) == ~p.in_event \/ ~Contains(p.lines[p.i], ":")

\* lines 144-145
OnSkippedLine(p) == [p EXCEPT !.i = @ + 1]

\* lines 147-149
OnPropertyLine(p) ==
    [p EXCEPT !.cur = Put(@, KeyOf(p.lines[p.i]), ValueOf(p.lines[p.i])), !.i = @ + 1]

\* line 151
OnReturn(p) == [p EXCEPT !.pc = "returned"]

\* one pass of the loop body, or the return after the last line
IcsStep(p) ==
    IF p.i > Len(p.lines) THEN OnReturn(p)
    ELSE IF p.lines[p.i] = BEGIN_VEVENT THEN OnBeginLine(p)
    ELSE IF p.lines[p.i] = END_VEVENT THEN OnEndLine(p)
    ELSE IF IsSkipped(p) THEN OnSkippedLine(p)
    ELSE OnPropertyLine(p)

RECURSIVE ParseFrom(_)
ParseFrom(p) == IF p.pc # "loop" THEN p ELSE ParseFrom(IcsStep(p))

\* the whole call: pc is "returned" (with events) or "raised"
parse_ics_events(text) == ParseFrom(ParseStart(text))

\* parse_ics_events(text) is called
IcsInit ==
    \E text \in IcsFeeds :
        /\ ics = [pc |-> "called", text |-> text]
        /\ run = NoRun
        /\ TranslatorIdle

UnfoldFeed ==
    /\ ics.pc = "called"
    /\ ics' = ParseStart(ics.text)
    /\ UNCHANGED <<translator, run>>

InIcsLoop == ics.pc = "loop" /\ ics.i <= Len(ics.lines)

BeginLine ==
    /\ InIcsLoop
    /\ ics.lines[ics.i] = BEGIN_VEVENT
    /\ ics' = OnBeginLine(ics)
    /\ UNCHANGED <<translator, run>>

EndLine ==
    /\ InIcsLoop
    /\ ics.lines[ics.i] = END_VEVENT
    /\ ics' = OnEndLine(ics)
    /\ UNCHANGED <<translator, run>>

SkippedLine ==
    /\ InIcsLoop
    /\ ics.lines[ics.i] \notin {BEGIN_VEVENT, END_VEVENT}
    /\ IsSkipped(ics)
    /\ ics' = OnSkippedLine(ics)
    /\ UNCHANGED <<translator, run>>

PropertyLine ==
    /\ InIcsLoop
    /\ ics.lines[ics.i] \notin {BEGIN_VEVENT, END_VEVENT}
    /\ ~IsSkipped(ics)
    /\ ics' = OnPropertyLine(ics)
    /\ UNCHANGED <<translator, run>>

ReturnEvents ==
    /\ ics.pc = "loop"
    /\ ics.i > Len(ics.lines)
    /\ ics' = OnReturn(ics)
    /\ UNCHANGED <<translator, run>>

IcsNext ==
    \/ UnfoldFeed
    \/ BeginLine
    \/ EndLine
    \/ SkippedLine
    \/ PropertyLine
    \/ ReturnEvents

IcsSpec == IcsInit /\ [][IcsNext]_vars

(***************************************************************************)
(* The sync runner (run_sync): its arguments, the remote folder list and   *)
(* the feed text are the inputs; requests is the sequence of HTTP requests *)
(* sent so far and calls the bulk helpers called so far.                   *)
(***************************************************************************)
BASE_URL == "https://intervals.icu"

DEFAULT_FOLDER_NAME == "Runna"

RUNNA_TAG == "runna"

ATHLETE_ID == "i1"

RUNNA_ICS_URL == "https://feed.test/runna.ics"

FOLDERS_URL == BASE_URL \o "/api/v1/athlete/" \o ATHLETE_ID \o "/folders"

UPLOAD_URL == BASE_URL \o "/api/v1/athlete/0/events/bulk?upsert=true"

DELETE_URL == BASE_URL \o "/api/v1/athlete/" \o ATHLETE_ID \o "/events/bulk-delete"

\* a < b on dates
DateLt(a, b) ==
    \/ a.year < b.year
    \/ a.year = b.year /\ a.month < b.month
    \/ a.year = b.year /\ a.month = b.month /\ a.day < b.day

DateLe(a, b) == a = b \/ DateLt(a, b)

NextDay(d) ==
    IF d.day < DaysInMonth(d.year, d.month) THEN [d EXCEPT !.day = @ + 1]
    ELSE IF d.month < 12 THEN [d EXCEPT !.month = @ + 1, !.day = 1]
    ELSE [d EXCEPT !.year = @ + 1, !.month = 1, !.day = 1]

\* d + dt.timedelta(days=n)
RECURSIVE AddDays(_, _)
AddDays(d, n) == IF n = 0 THEN d ELSE AddDays(NextDay(d), n - 1)

\* f"{n:0{width}d}"
Pad(n, width) ==
    IF Len(StrOf(n)) >= width THEN StrOf(n)
    ELSE SubSeq("0000", 1, width - Len(StrOf(n))) \o StrOf(n)

\* date.isoformat()
isoformat(d) == Pad(d.year, 4) \o "-" \o Pad(d.month, 2) \o "-" \o Pad(d.day, 2)

start_date_local(ev) == isoformat(ev.dtstart_date) \o "T07:00:00"

\* aus_today() during the run
TODAY == Date(2026, 1, 21)

\* the elements of s at the indices idx, in order
SubSeqAt(s, idx) ==
    [k \in 1..Cardinality(idx) |->
        s[CHOOSE x \in idx : Cardinality({y \in idx : y <= x}) = k]]

select_events(events, include_today, all_workouts, next_week) ==
    LET start == IF include_today THEN TODAY ELSE AddDays(TODAY, 1)
        end == AddDays(start, 7)
        by_date == IF all_workouts THEN DOMAIN events
                   ELSE IF include_today
                        THEN {i \in DOMAIN events : DateLe(TODAY, events[i].dtstart_date)}
                        ELSE {i \in DOMAIN events : DateLt(TODAY, events[i].dtstart_date)}
    IN  IF next_week
        THEN SubSeqAt(events, {i \in by_date : /\ DateLe(start, events[i].dtstart_date)
                                               /\ DateLt(events[i].dtstart_date, end)})
        ELSE SubSeqAt(events, by_date)

hard_guard_drop_past(selected, include_today) ==
    IF include_today
    THEN SubSeqAt(selected, {i \in DOMAIN selected : DateLe(TODAY, selected[i].dtstart_date)})
    ELSE SubSeqAt(selected, {i \in DOMAIN selected : DateLt(TODAY, selected[i].dtstart_date)})

\* translate_workout_to_intervals_text for a description without a line
\* (lines 439-441), which is what the events of SyncFeeds carry
TranslatedNoLines == [text |-> DEFAULT_TEXT, partial |-> TRUE]

\* (ev, partial, payload) of one event
build_intervals_event(ev, folder_id) ==
    [ev |-> ev,
     partial |-> TranslatedNoLines.partial,
     payload |-> [start_date_local |-> start_date_local(ev),
                  name |-> Or(Strip(ev.summary), "Runna Workout"),
                  category |-> "WORKOUT",
                  type |-> "Run",
                  folder_id |-> folder_id,
                  external_id |-> ev.uid,
                  tags |-> <<RUNNA_TAG>>,
                  description |-> RStrip(Strip(ev.description)) \o "\n\n-\n\n"
                                      \o RStrip(TranslatedNoLines.text)]]

make_validation_report(results) ==
    [total |-> Len(results),
     ok |-> Len(results) - Cardinality({k \in DOMAIN results : results[k].partial}),
     partial |-> Cardinality({k \in DOMAIN results : results[k].partial})]

Request(method, url, body) == [method |-> method, url |-> url, body |-> body]

NoBody == <<>>

\* the folder objects GET /folders returns that ensure_folder accepts
FoldersNamed(folders, folder_name) ==
    {k \in DOMAIN folders : folders[k].type = "FOLDER" /\ folders[k].name = folder_name}

MaxEvents == 2

FeedDays == {"20260120", "20260121", "20260122", "20260128"}

EventBlock(k, day) ==
    <<BEGIN_VEVENT, "UID:runna-" \o StrOf(k), "DTSTART;VALUE=DATE:" \o day,
      "SUMMARY:Easy Run", END_VEVENT>>

SyncFeeds ==
    {Join(Concat([k \in DOMAIN days |-> EventBlock(k, days[k])]), "\n") :
        days \in SeqsUpTo(FeedDays, MaxEvents)}

FolderLists ==
    { <<>>,
      <<[type |-> "FOLDER", name |-> "Runna", id |-> 7]>>,
      <<[type |-> "PLAN", name |-> "Runna", id |-> 3],
        [type |-> "FOLDER", name |-> "Other", id |-> 4]>> }

\* run_sync(...) is called
SyncInit ==
    /\ \E dry_run, include_today, all_workouts, next_week, delete_all \in BOOLEAN,
          folders \in FolderLists, feed \in SyncFeeds :
          run = [pc |-> "auth_test", dry_run |-> dry_run, include_today |-> include_today,
                 all_workouts |-> all_workouts, next_week |-> next_week,
                 delete_all |-> delete_all, folders |-> folders, feed |-> feed,
                 requests |-> <<>>, calls |-> <<>>, folder_id |-> 0, events |-> <<>>,
                 selected |-> <<>>, built |-> <<>>, result |-> <<>>]
    /\ ics = NoParse
    /\ TranslatorIdle

Sent(r, req) == [r EXCEPT !.requests = Append(@, req)]

\* r.raise_for_status() or a transport error
Raised(r) == [r EXCEPT !.pc = "raised"]

\* line 834: auth_test
AuthTest ==
    /\ run.pc = "auth_test"
    /\ \E ok \in BOOLEAN :
          run' = IF ok THEN [Sent(run, Request("GET", FOLDERS_URL, NoBody))
                                 EXCEPT !.pc = "ensure_folder"]
                 ELSE Raised(Sent(run, Request("GET", FOLDERS_URL, NoBody)))
    /\ UNCHANGED <<translator, ics>>

\* ensure_folder when the folder is not listed: POST, whatever dry_run is
CreateFolder(r, folder_name, ok, fid) ==
    IF ok
    THEN [Sent(r, Request("POST", FOLDERS_URL, [type |-> "FOLDER", name |-> folder_name]))
              EXCEPT !.folders = Append(@, [type |-> "FOLDER", name |-> folder_name, id |-> fid]),
                     !.folder_id = fid, !.pc = "fetch"]
    ELSE Raised(Sent(r, Request("POST", FOLDERS_URL, [type |-> "FOLDER", name |-> folder_name])))

\* lines 836-837: ensure_folder (lines 626-640)
EnsureFolder ==
    /\ run.pc = "ensure_folder"
    /\ \E ok, ok2 \in BOOLEAN :
          run' = IF ~ok THEN Raised(Sent(run, Request("GET", FOLDERS_URL, NoBody)))
                 ELSE IF FoldersNamed(run.folders, DEFAULT_FOLDER_NAME) # {}
                 THEN [Sent(run, Request("GET", FOLDERS_URL, NoBody))
                           EXCEPT !.folder_id =
                                      run.folders[Min(FoldersNamed(run.folders, DEFAULT_FOLDER_NAME))].id,
                                  !.pc = "fetch"]
                 ELSE CreateFolder(Sent(run, Request("GET", FOLDERS_URL, NoBody)),
                                   DEFAULT_FOLDER_NAME, ok2, 9)
    /\ UNCHANGED <<translator, ics>>

\* lines 839-843: the feed is fetched and parsed
FetchFeed ==
    /\ run.pc = "fetch"
    /\ \E ok \in BOOLEAN :
          run' = IF ok /\ parse_ics_events(run.feed).pc = "returned"
                 THEN [Sent(run, Request("GET", RUNNA_ICS_URL, NoBody))
                           EXCEPT !.events = parse_ics_events(run.feed).events,
                                  !.pc = "select"]
                 ELSE Raised(Sent(run, Request("GET", RUNNA_ICS_URL, NoBody)))
    /\ UNCHANGED <<translator, ics>>

\* line 846
SelectEvents ==
    /\ run.pc = "select"
    /\ run' = [run EXCEPT !.selected = select_events(run.events, run.include_today,
                                                      run.all_workouts, run.next_week),
                          !.pc = "guard"]
    /\ UNCHANGED <<translator, ics>>

\* line 847
HardGuard ==
    /\ run.pc = "guard"
    /\ run' = [run EXCEPT !.selected = hard_guard_drop_past(run.selected, run.include_today),
                          !.pc = "build"]
    /\ UNCHANGED <<translator, ics>>

\* lines 849-854
BuildEvents ==
    /\ run.pc = "build"
    /\ run' = [run EXCEPT !.built = [k \in DOMAIN run.selected |->
                                        build_intervals_event(run.selected[k], run.folder_id)],
                          !.pc = "deliver"]
    /\ UNCHANGED <<translator, ics>>

\* line 863, with the references of every parsed event
RefsOfParsed(r) == [k \in DOMAIN r.events |-> [external_id |-> r.events[k].uid]]

\* line 863
DeleteRefs(r) == [k \in DOMAIN r.built |-> [external_id |-> r.built[k].ev.uid]]

\* line 883
UploadPayload(r) == [k \in DOMAIN r.built |-> r.built[k].payload]

Called(r, fn, arg) ==
    [r EXCEPT !.calls = Append(@, [fn |-> fn, arg |-> arg, dry_run |-> r.dry_run])]

\* what run_sync returns: identified, validation_report and dry_run, and the
\* results of the bulk helpers without their "json" entry
Returned(r, delete_result, upload_result) ==
    [r EXCEPT !.pc = "returned",
              !.result = [identified |-> Len(r.built),
                          validation_report |-> make_validation_report(r.built),
                          delete_result |-> delete_result,
                          upload_result |-> upload_result,
                          dry_run |-> r.dry_run]]

\* bulk_delete_events / bulk_upload_events without dry_run: one request
BulkSent(r, method, url, body, ok) ==
    IF ok THEN Sent(r, Request(method, url, body)) ELSE Raised(Sent(r, Request(method, url, body)))

\* lines 862-881: delete_all
DeleteAll ==
    /\ run.pc = "deliver"
    /\ run.delete_all
    /\ \E ok \in BOOLEAN :
          run' = IF run.dry_run
                 THEN Returned(Called(run, "bulk_delete_events", DeleteRefs(run)),
                               <<[dry_run |-> TRUE, count |-> Len(DeleteRefs(run))]>>,
                               [skipped |-> TRUE, reason |-> "--delete-all set"])
                 ELSE IF ok
                 THEN Returned(BulkSent(Called(run, "bulk_delete_events", DeleteRefs(run)),
                                        "PUT", DELETE_URL, DeleteRefs(run), TRUE),
                               <<[dry_run |-> FALSE, count |-> Len(DeleteRefs(run)),
                                  status |-> 200]>>,
                               [skipped |-> TRUE, reason |-> "--delete-all set"])
                 ELSE BulkSent(Called(run, "bulk_delete_events", DeleteRefs(run)),
                               "PUT", DELETE_URL, DeleteRefs(run), FALSE)
    /\ UNCHANGED <<translator, ics>>

\* lines 883-899: the upload
Upload ==
    /\ run.pc = "deliver"
    /\ ~run.delete_all
    /\ \E ok \in BOOLEAN :
          run' = IF run.dry_run
                 THEN Returned(Called(run, "bulk_upload_events", UploadPayload(run)),
                               <<>>,
                               [dry_run |-> TRUE, count |-> Len(UploadPayload(run))])
                 ELSE IF ok
                 THEN Returned(BulkSent(Called(run, "bulk_upload_events", UploadPayload(run)),
                                        "POST", UPLOAD_URL, UploadPayload(run), TRUE),
                               <<>>,
                               [dry_run |-> FALSE, count |-> Len(UploadPayload(run)),
                                status |-> 200])
                 ELSE BulkSent(Called(run, "bulk_upload_events", UploadPayload(run)),
                               "POST", UPLOAD_URL, UploadPayload(run), FALSE)
    /\ UNCHANGED <<translator, ics>>

SyncNext ==
    \/ AuthTest
    \/ EnsureFolder
    \/ FetchFeed
    \/ SelectEvents
    \/ HardGuard
    \/ BuildEvents
    \/ DeleteAll
    \/ Upload

SyncSpec == SyncInit /\ [][SyncNext]_vars


(***************************************************************************)
(* Properties of the returned text and flag.                               *)
(***************************************************************************)
IsStepLine(l) == StartsWith(l, "- ")

IsTitleLine(l) == l # "" /\ ~StartsWith(l, "- ")

\* C1: the returned text is non-empty and is a sequence of groups, each a
\* title line immediately followed by step lines that begin with "- ";
\* exactly one blank line stands between two groups and nowhere else (not
\* after a title, not between two steps, not at the end).
C1_OutputGrammar ==
    pc = "done" =>
        LET out == Split(result.text, "\n")
            n == Len(out)
        IN  /\ result.text # ""
            /\ IsTitleLine(out[1])
            /\ out[n] # ""
            /\ \A i \in 1..n :
                   /\ out[i] = "" =>
                          i > 1 /\ i < n /\ IsStepLine(out[i - 1]) /\ IsTitleLine(out[i + 1])
                   /\ IsTitleLine(out[i]) =>
                          (i = 1 \/ out[i - 1] = "") /\ i < n /\ IsStepLine(out[i + 1])

\* a result of the loop path with two groups or more
C1_TwoGroupsRendered ==
    /\ pc = "done"
    /\ pos > 0
    /\ Len(sm.groups) >= 2
    /\ Contains(result.text, "\n\n")

\* C2: when no group with at least one step survives (no line at all, or a
\* body that leaves the list of groups empty), the result is exactly
\* "Main Set\n- 60m Z1-Z2 Pace" with partial = TRUE.
C2_DefaultWhenNoGroup ==
    pc = "done" /\ (splitlines(full_description) = <<>> \/ (pos > 0 /\ sm.groups = <<>>))
        => result = [text |-> DEFAULT_TEXT, partial |-> TRUE]

\* a body of ignored lines only: no fragment fell through, no group
C2_IgnoredLinesOnly ==
    /\ pc = "done"
    /\ Len(body_lines) >= 1
    /\ sm.groups = <<>>
    /\ ~sm.partial

\* some fragment of frags, processed in turn from machine m, is neither
\* ignored (noise, nothing left after cleaning, fast-bursts hint) nor turned
\* into a step
RECURSIVE FellThrough(_, _, _, _)
FellThrough(m, frags, allow_group_change, into_repeat) ==
    IF frags = <<>> THEN FALSE
    ELSE LET F == FragFactsOf(Head(frags))
             after == _process_fragment(m, Head(frags), allow_group_change, into_repeat)
         IN  \/ ~F.skip /\ ~Has(F, FAST_BURSTS_HINT) /\ after.next_id = m.next_id
             \/ FellThrough(after, Tail(frags), allow_group_change, into_repeat)

LineFellThrough(L) ==
    /\ LineKind(L, sm.state) \in {"repeat_content", "normal_content"}
    /\ FellThrough(sm, L.frags, sm.state = NORMAL, sm.state # NORMAL)

\* the fixed default is what the call returned
DefaultReturned(r, p, groups) ==
    \/ p = 0 /\ r.text = DEFAULT_TEXT
    \/ p > 0 /\ groups = <<>>

C3_Step ==
    /\ pc = "constructed" => ~sm.partial
    /\ pc = "loop" /\ pc' = "loop" => (sm'.partial <=> sm.partial \/ LineFellThrough(Line))
    /\ pc' = "done" => (result'.partial <=> sm.partial \/ DefaultReturned(result', pos', sm'.groups))

\* C3: the returned flag is TRUE exactly when a fragment reached the
\* no-match branch or the fixed default was returned: the flag starts
\* FALSE, a line turns it TRUE exactly when one of its fragments falls
\* through, and the returned flag is the machine's flag or the default's.
C3_PartialExactly == [][C3_Step]_vars

\* a fragment fell through and a group was still rendered
C3_PartialWithGroups ==
    /\ pc = "done"
    /\ result.partial
    /\ sm.groups # <<>>
    /\ result.text # DEFAULT_TEXT
    /\ \E i \in 1..Len(body_lines) : body_lines[i] = "stretch well"

C4_Step ==
    /\ sm.partial => sm'.partial
    /\ pc' = "done" /\ sm.partial => result'.partial

\* C4: within one translation the partial flag never goes from TRUE back
\* to FALSE, whatever line, transition, close, flush or post-processing
\* follows, and the flag returned is then TRUE.
C4_PartialMonotonic == [][C4_Step]_vars

\* the first body line is unrecognized, a later line gives a step, and the
\* groups were flushed
C4_PartialThenSteps ==
    /\ pc = "done"
    /\ Len(body_lines) >= 2
    /\ body_lines[1] = "stretch well"
    /\ sm.groups # <<>>
    /\ result.partial

Remaining ==
    IF pc = "constructed" THEN Len(splitlines(full_description)) + 2
    ELSE IF pc = "loop" THEN Len(body_lines) + 2 - pos
    ELSE 0

LoopBranches ==
    {"blank_in_repeat", "empty_in_repeat", "skipped", "separator", "header",
     "repeat_content", "normal_content"}

\* some branch of translate() takes the current position
CanStep ==
    \/ pc = "constructed"
    \/ pc = "loop" /\ pos > Len(body_lines)
    \/ pc = "loop" /\ pos \in 1..Len(body_lines)
                   /\ sm.state \in {NORMAL} \cup REPEAT_STATES
                   /\ LineKind(Line, sm.state) \in LoopBranches

C6_Step ==
    /\ Remaining' < Remaining
    /\ pc = "loop" /\ pc' = "loop" => pos' = pos + 1 /\ body_lines' = body_lines

C7_NoEmptyGroup ==
    /\ \A i \in 1..Len(sm.groups) : sm.groups[i].steps # <<>>
    /\ pc = "done" =>
           LET out == Split(result.text, "\n")
           IN  \A i \in 1..Len(out) :
                   IsTitleLine(out[i]) => i < Len(out) /\ IsStepLine(out[i + 1])

HeaderLines == {"11 reps of:", "Repeat the following 6x:"}

RepeatTitles == {"Main Set 11x", "Main Set 6x"}

\* a repeat block was opened and closed without a step: no such group
C7_EmptyRepeatDropped ==
    /\ pc = "done"
    /\ Len(body_lines) >= 1
    /\ body_lines[1] \in HeaderLines
    /\ \A i \in 1..Len(sm.groups) : sm.groups[i].title \notin RepeatTitles

IsHeader(L) == L.m1 # "" \/ L.m2 # ""

C8_Step ==
    pc = "loop" /\ pc' = "loop" =>
        /\ sm.state \in REPEAT_STATES /\ IsHeader(Line) =>
               /\ sm'.state \in REPEAT_STATES
               /\ sm'.repeat_group # <<>>
               /\ sm'.repeat_group[1].title = sm.repeat_group[1].title
               /\ sm'.groups = sm.groups
        /\ sm'.repeat_group # <<>>
             /\ (sm.repeat_group = <<>>
                    \/ sm'.repeat_group[1].title # sm.repeat_group[1].title
                    \/ Len(sm'.repeat_group[1].steps) < Len(sm.repeat_group[1].steps)) =>
               sm.state = NORMAL /\ sm.repeat_group = <<>>

\* C8: at most one repeat group is open and blocks do not nest: while the
\* loop runs a repeat group is open exactly in the three REPEAT states; a
\* header line read in one of them leaves that group open under the same
\* title and adds no group; and a repeat group is opened only from NORMAL
\* with no group open.
C8_NoNestedRepeat ==
    /\ [](pc = "loop" => (sm.state \in REPEAT_STATES <=> sm.repeat_group # <<>>))
    /\ [](Len(sm.repeat_group) <= 1)
    /\ [][C8_Step]_vars

\* a second header was read while the block of the first was open
C8_HeaderInsideRepeat ==
    /\ pc = "loop"
    /\ pos = 4
    /\ body_lines[1] = "Repeat the following 6x:"
    /\ body_lines[3] = "11 reps of:"
    /\ sm.repeat_group # <<>>
    /\ sm.repeat_group[1].title = "Main Set 6x"

\* the steps a line gives when read on its own outside a repeat block
StepsOfLine(raw) ==
    LET m == ProcessFragments(NewMachine(workout_name, full_description),
                              LineFactsOf(raw).frags, FALSE, FALSE)
    IN  IF m.partial THEN <<>> ELSE m.current.steps

RepsOfHeader(raw) == IF raw = "11 reps of:" THEN "11" ELSE "6"

EndsWith(s, pat) == Len(s) >= Len(pat) /\ At(s, Len(s) - Len(pat) + 1, pat)

\* body_lines is a header, a separator, k lines of one step each, a separator
SeparatedBlock(k) ==
    /\ Len(body_lines) >= k + 3
    /\ body_lines[1] \in HeaderLines
    /\ body_lines[2] = SEPARATOR
    /\ \A j \in 1..k : Len(StepsOfLine(body_lines[j + 2])) = 1
    /\ body_lines[k + 3] = SEPARATOR

\* the step of the j-th line of the block as the repeat group holds it (in
\* hills mode the first step of a repeat group is prefixed "run uphill")
BlockStep(j) ==
    LET text == StepsOfLine(body_lines[j + 2])[1].text
    IN  IF sm.hills_mode /\ j = 1 THEN "- run uphill " \o From(text, 3) ELSE text

C10_HillsRepeat ==
    pc = "done" /\ sm.hills_mode /\ body_lines = <<"11 reps of:", HILLS_LINE>> =>
        \E i \in 1..Len(sm.groups) :
            LET steps == sm.groups[i].steps
            IN  /\ sm.groups[i].title = "Main Set 11x"
                /\ \E j \in 1..Len(steps) : Contains(steps[j].text, "Z3-Z5 HR")
                /\ Contains(steps[1].text, "run uphill")
                /\ \A j \in 2..Len(steps) : ~Contains(steps[j].text, "run uphill")
                /\ \E j \in 1..Len(steps) : Contains(steps[j].text, "Jog Downhill")

EASY_LINE ==
    "12km easy run at a conversational pace (no faster than 6:00/km). This is a limit, not a target - run at whatever pace feels truly easy!"

\* C11: a title starting with "Easy Run", a non-empty title line and the
\* single content line "12km easy run at a conversational pace (no faster
\* than 6:00/km). This is a limit, not a target - ..." give a "Main Set"
\* group with the step "- 12km Z2-Z3 Pace" and partial = FALSE.
C11_EasyRunLine ==
    /\ pc = "done"
    /\ StartsWith(workout_name, "Easy Run")
    /\ body_lines = <<EASY_LINE>>
    /\ splitlines(full_description)[1] # ""
    => /\ ~result.partial
       /\ StartsWith(result.text, "Main Set\n")
       /\ \E i \in 1..Len(sm.groups) :
              /\ sm.groups[i].title = "Main Set"
              /\ \E j \in 1..Len(sm.groups[i].steps) :
                     sm.groups[i].steps[j].text = "- 12km Z2-Z3 Pace"

\* the body line contains one of the noise markers
HasNoiseMarker(raw) == \E x \in NOISE_SUBSTRINGS : Contains(Lower(raw), Lower(x))

\* C12: a body line containing a noise marker is dropped in every state:
\* the machine after the line is the machine before it (no step, partial
\* not set, same state, same current group, same open repeat group).
C12_NoiseLineDropped ==
    pc = "loop" /\ pos >= 2 /\ HasNoiseMarker(body_lines[pos - 1])
        => sm = log[pos - 1]

\* the machine when the loop has ended, before post-processing
BeforePostprocess(m) ==
    _flush_current(IF m.state \in REPEAT_STATES THEN _close_repeat_group(m) ELSE m)

CONVERSATIONAL_LINE == "5km at a conversational pace"

\* C13: when the last body line gave a conversational step that ends the
\* final group and that group is titled "Main Set", translate() moves the
\* step into a new trailing "Cooldown" group (dropping a "Main Set" left
\* empty), so the groups rendered end with "Cooldown" holding that step.
C13_ConversationalToCooldown ==
    pc = "done" /\ pos > 0 /\ Len(body_lines) >= 1
                /\ body_lines[Len(body_lines)] = CONVERSATIONAL_LINE =>
        LET before == BeforePostprocess(log[Len(log) - 1]).groups
            n == Len(before)
            k == Len(before[n].steps)
            step == before[n].steps[k]
        IN  n >= 1 /\ before[n].title = "Main Set" /\ step.id = sm.next_id - 1 =>
                /\ sm.groups[Len(sm.groups)] = Group("Cooldown", <<step>>)
                /\ k = 1 => Len(sm.groups) = n
                /\ k > 1 => Len(sm.groups) = n + 1

\* C14 as stated: under a title starting with "easy run" the line must
\* contain "easy" as well; every other one-line description gives the
\* default.
C14_SingleLineAsStated ==
    pc = "done" /\ Len(splitlines(full_description)) = 1 =>
        LET line == splitlines(full_description)[1]
            dist == parse_distance(line)
            ll == Lower(line)
            easy == /\ dist # ""
                    /\ \/ Contains(ll, "easy")
                       \/ Contains(ll, "conversational")
                       \/ StartsWith(Lower(workout_name), "easy run") /\ Contains(ll, "easy")
        IN  result = IF easy
                     THEN [text |-> "Main Set\n- " \o dist \o " Z2-Z3 Pace", partial |-> FALSE]
                     ELSE [text |-> DEFAULT_TEXT, partial |-> TRUE]

\* C14 (amended): a one-line description gives "Main Set / - <dist> Z2-Z3
\* Pace" with partial = FALSE exactly when the line yields a distance and
\* either contains "easy" or "conversational" or the workout title starts
\* with "easy run" (whatever else the line says); every other one-line
\* description gives the fixed default with partial = TRUE.
C14_SingleLine ==
    pc = "done" /\ Len(splitlines(full_description)) = 1 =>
        LET line == splitlines(full_description)[1]
            dist == parse_distance(line)
            ll == Lower(line)
            easy == /\ dist # ""
                    /\ \/ Contains(ll, "easy")
                       \/ Contains(ll, "conversational")
                       \/ StartsWith(Lower(workout_name), "easy run")
        IN  result = IF easy
                     THEN [text |-> "Main Set\n- " \o dist \o " Z2-Z3 Pace", partial |-> FALSE]
                     ELSE [text |-> DEFAULT_TEXT, partial |-> TRUE]

\* an easy-run title and a line with a distance but no "easy"
C14_EasyTitlePlainLine ==
    /\ pc = "done"
    /\ workout_name = "Easy Run 12km"
    /\ full_description = "3km at 5:30/km"
    /\ result = [text |-> "Main Set\n- 3km Z2-Z3 Pace", partial |-> FALSE]

HasHillKeyword(text) == \E k \in HILL_KEYWORDS : Contains(Lower(text), k)

\* C15 as stated: a hill keyword in the title or in the description turns
\* hills mode on.
C15_HillsByTitleOrDescription ==
    HasHillKeyword(workout_name) \/ HasHillKeyword(full_description) => sm.hills_mode

\* C15 (amended): hills mode is on exactly when the full description
\* contains a hill keyword; a keyword in the title alone leaves it off, and
\* then an unrecognized fragment gets no hills fallback step.
C15_HillsByDescription ==
    /\ pc = "constructed" => (sm.hills_mode <=> HasHillKeyword(full_description))
    /\ sm.hills_mode = log[1].hills_mode
    /\ ~sm.hills_mode =>
           /\ ~sm.hills_fallback_added
           /\ \A i \in 1..Len(sm.groups) : \A j \in 1..Len(sm.groups[i].steps) :
                  sm.groups[i].steps[j].id # 0

\* a title with "hill", a description without keyword, a fragment fell through
C15_HillTitleOnlyRun ==
    /\ pc = "done"
    /\ HasHillKeyword(workout_name)
    /\ ~HasHillKeyword(full_description)
    /\ sm.partial
    /\ ~sm.hills_mode
    /\ result.text = DEFAULT_TEXT

\* C20: a blank line read in REPEAT_SEP_WAIT_OPEN, REPEAT_OPEN or
\* REPEAT_SEP_CAPTURE closes the open repeat group (it joins the groups
\* exactly when it has a step), leaves no repeat group open and sets the
\* state to NORMAL, all else unchanged; read in NORMAL it changes nothing.
C20_BlankLineClosesRepeat ==
    pc = "loop" /\ pos >= 2 /\ Strip(body_lines[pos - 1]) = "" =>
        LET before == log[pos - 1]
        IN  IF before.state \in REPEAT_STATES
            THEN /\ sm.state = NORMAL
                 /\ sm.repeat_group = <<>>
                 /\ ~sm.repeat_first_step_pending
                 /\ before.repeat_group # <<>>
                 /\ sm.groups = IF before.repeat_group[1].steps # <<>>
                                 THEN Append(before.groups, before.repeat_group[1])
                                 ELSE before.groups
                 /\ sm.current = before.current
                 /\ sm.partial = before.partial
            ELSE sm = before

\* a blank line closed a block that was between separators and had steps
C20_BlankInCapture ==
    /\ pc = "loop"
    /\ pos >= 2
    /\ body_lines[pos - 1] = ""
    /\ log[pos - 1].state = REPEAT_SEP_CAPTURE
    /\ log[pos - 1].repeat_group[1].steps # <<>>
    /\ sm.state = NORMAL
    /\ Len(sm.groups) = Len(log[pos - 1].groups) + 1

(***************************************************************************)
(* Properties of the repeat-block state machine, line by line: at          *)
(* pc = "loop" the line just read is body_lines[pos - 1] and the machine   *)
(* before it is log[pos - 1].                                              *)
(***************************************************************************)
\* the steps of the groups gs, in order
GroupSteps(gs) == Concat([i \in DOMAIN gs |-> gs[i].steps])

\* every step the machine m holds: emitted groups, current group, open
\* repeat group
AllSteps(m) == GroupSteps(m.groups) \o m.current.steps \o GroupSteps(m.repeat_group)

\* the line just read is a separator line (and reaches the separator test)
SeparatorRead ==
    /\ pc = "loop"
    /\ pos >= 2
    /\ LineFactsOf(body_lines[pos - 1]).sep
    /\ LineFactsOf(body_lines[pos - 1]).ln # ""
    /\ ~LineFactsOf(body_lines[pos - 1]).noise

\* C21: a separator line (three or more '-') never contributes a step; read
\* in REPEAT_SEP_WAIT_OPEN it moves the state to REPEAT_SEP_CAPTURE and
\* changes nothing else; read in REPEAT_SEP_CAPTURE it closes the repeat
\* group (which joins the groups exactly when it has a step) and moves the
\* state to NORMAL; read in NORMAL or REPEAT_OPEN it changes nothing at all.
C21_SeparatorLine ==
    SeparatorRead =>
        LET before == log[pos - 1]
        IN  /\ AllSteps(sm) = AllSteps(before)
            /\ before.state = REPEAT_SEP_WAIT_OPEN =>
                  sm = [before EXCEPT !.state = REPEAT_SEP_CAPTURE]
            /\ before.state = REPEAT_SEP_CAPTURE =>
                  /\ sm.state = NORMAL
                  /\ sm.repeat_group = <<>>
                  /\ sm.groups = IF before.repeat_group[1].steps # <<>>
                                 THEN Append(before.groups, before.repeat_group[1])
                                 ELSE before.groups
                  /\ sm.current = before.current
                  /\ sm.partial = before.partial
            /\ before.state \in {NORMAL, REPEAT_OPEN} => sm = before

\* a separator was read in REPEAT_OPEN while the repeat group had steps,
\* and the group is still open
C21_SeparatorInOpenRepeat ==
    /\ SeparatorRead
    /\ log[pos - 1].state = REPEAT_OPEN
    /\ log[pos - 1].repeat_group[1].steps # <<>>
    /\ sm.state = REPEAT_OPEN
    /\ sm.repeat_group = log[pos - 1].repeat_group

\* the line just read is a reps header met in NORMAL
HeaderReadInNormal ==
    /\ pc = "loop"
    /\ pos >= 2
    /\ body_lines[pos - 1] \in HeaderLines
    /\ log[pos - 1].state = NORMAL

\* C22: a reps-header line read in NORMAL appends the current non-repeat
\* group to the groups if it has at least one step, opens an empty repeat
\* group titled 'Main Set <N>x', leaves an empty 'Main Set' as the current
\* group and moves the state to REPEAT_SEP_WAIT_OPEN; it adds no step and
\* does not touch partial.
C22_HeaderOpensRepeat ==
    HeaderReadInNormal =>
        LET before == log[pos - 1]
        IN  /\ sm.groups = IF before.current.steps # <<>>
                           THEN Append(before.groups, before.current)
                           ELSE before.groups
            /\ sm.repeat_group =
                   <<Group("Main Set " \o RepsOfHeader(body_lines[pos - 1]) \o "x", <<>>)>>
            /\ sm.current = Group("Main Set", <<>>)
            /\ sm.state = REPEAT_SEP_WAIT_OPEN
            /\ AllSteps(sm) = AllSteps(before)
            /\ sm.partial = before.partial

\* a header was read in NORMAL after a warm up line: the Warmup group with
\* its step joined the groups
C22_HeaderAfterWarmup ==
    /\ HeaderReadInNormal
    /\ log[pos - 1].current.title = "Warmup"
    /\ log[pos - 1].current.steps # <<>>
    /\ sm.groups = <<log[pos - 1].current>>
    /\ sm.repeat_group[1].title = "Main Set 11x"

\* C23 as stated: in REPEAT_SEP_WAIT_OPEN every line that is not blank, not
\* noise and not a separator moves the state to REPEAT_OPEN.
C23_NonBlankLineOpensRepeat ==
    /\ pc = "loop"
    /\ pos >= 2
    /\ log[pos - 1].state = REPEAT_SEP_WAIT_OPEN
    /\ ~LineFactsOf(body_lines[pos - 1]).blank
    /\ ~LineFactsOf(body_lines[pos - 1]).noise
    /\ ~LineFactsOf(body_lines[pos - 1]).sep
    => sm.state = REPEAT_OPEN

\* C23: in REPEAT_SEP_WAIT_OPEN a line that is non-empty after cleaning, not
\* noise and not a separator moves the state to REPEAT_OPEN and is processed
\* as repeat content (no group is closed, the repeat group stays open); a
\* line that cleans to empty leaves the state REPEAT_SEP_WAIT_OPEN.  Once in
\* REPEAT_OPEN a line leaves that state only when it is blank or cleans to
\* empty, and then for NORMAL: a separator never closes the block.
C23_ContentOpensRepeat ==
    pc = "loop" /\ pos >= 2 =>
        LET before == log[pos - 1]
            L == LineFactsOf(body_lines[pos - 1])
        IN  /\ before.state = REPEAT_SEP_WAIT_OPEN /\ ~L.blank =>
                  IF L.ln # "" /\ ~L.noise /\ ~L.sep
                  THEN /\ sm.state = REPEAT_OPEN
                       /\ sm.groups = before.groups
                       /\ sm.repeat_group # <<>>
                       /\ sm.repeat_group[1].title = before.repeat_group[1].title
                  ELSE L.ln = "" => sm = before
            /\ before.state = REPEAT_OPEN =>
                  \/ sm.state = REPEAT_OPEN /\ sm.repeat_group # <<>>
                  \/ (L.blank \/ L.ln = "") /\ sm.state = NORMAL

\* a content line after the header opened the block without separators, and
\* the separator read next left it open
C23_SeparatorAfterContent ==
    /\ pc = "loop"
    /\ pos >= 3
    /\ log[pos - 2].state = REPEAT_SEP_WAIT_OPEN
    /\ log[pos - 1].state = REPEAT_OPEN
    /\ body_lines[pos - 1] = SEPARATOR
    /\ sm.state = REPEAT_OPEN
    /\ sm.repeat_group # <<>>

\* translate() has returned after its loop; log[Len(log) - 1] is the machine
\* as the last body line left it
LoopEnded == pc = "done" /\ body_lines # <<>> /\ Len(log) = Len(body_lines) + 2

\* C24: when the input ends in one of the three REPEAT states the open
\* repeat group is closed as on a blank line (it joins the groups exactly
\* when it has a step) and only then is the current non-repeat group
\* flushed: no step of the unterminated block is lost, and in the groups and
\* in the returned text the repeat group comes before the final non-repeat
\* group.
C24_EndOfInputClosesRepeat ==
    LoopEnded /\ log[Len(log) - 1].state \in REPEAT_STATES =>
        LET before == log[Len(log) - 1]
            closed == IF before.repeat_group[1].steps # <<>>
                      THEN <<before.repeat_group[1]>> ELSE <<>>
            flushed == IF before.current.steps # <<>>
                       THEN <<before.current>> ELSE <<>>
            expected == before.groups \o closed \o flushed
        IN  /\ sm.groups = expected
            /\ sm.repeat_group = <<>>
            /\ GroupSteps(sm.groups) = GroupSteps(before.groups)
                                          \o before.repeat_group[1].steps
                                          \o before.current.steps
            /\ expected # <<>> =>
                   result.text = RStrip(Join(RenderLines(expected, 1), "\n"))

\* the input ended inside a repeat block that had a step while the current
\* group had one too: both were emitted, the repeat group first
C24_UnterminatedRepeatBeforeCurrent ==
    /\ LoopEnded
    /\ log[Len(log) - 1].state = REPEAT_OPEN
    /\ log[Len(log) - 1].repeat_group[1].steps # <<>>
    /\ log[Len(log) - 1].current.steps # <<>>
    /\ Len(sm.groups) >= 2
    /\ sm.groups[Len(sm.groups) - 1] = log[Len(log) - 1].repeat_group[1]
    /\ sm.groups[Len(sm.groups)] = log[Len(log) - 1].current

\* the line just read was processed as repeat content (lines 501-507)
RepeatContentRead ==
    /\ pc = "loop"
    /\ pos >= 2
    /\ LineKind(LineFactsOf(body_lines[pos - 1]), log[pos - 1].state) = "repeat_content"

\* C25: every step produced by a line processed as repeat content is
\* appended to the open repeat group and none to the current non-repeat
\* group, the hills fallback step of an unclassified fragment included.
C25_RepeatStepsGoToRepeatGroup ==
    RepeatContentRead =>
        LET before == log[pos - 1]
        IN  /\ sm.current = before.current
            /\ sm.groups = before.groups
            /\ sm.repeat_group # <<>>
            /\ Len(sm.repeat_group[1].steps) >= Len(before.repeat_group[1].steps)
            /\ SubSeq(sm.repeat_group[1].steps, 1, Len(before.repeat_group[1].steps))
                   = before.repeat_group[1].steps

\* the line just read is one fragment naming a warm up or a cool down, and
\* it was processed as repeat content
RampInRepeatRead ==
    /\ RepeatContentRead
    /\ Len(LineFactsOf(body_lines[pos - 1]).frags) = 1
    /\ \/ Has(FragFactsOf(LineFactsOf(body_lines[pos - 1]).frags[1]), "warm up")
       \/ Has(FragFactsOf(LineFactsOf(body_lines[pos - 1]).frags[1]), "cool down")

\* C26: while a repeat block is open a 'warm up' or 'cool down' fragment
\* starts no Warmup or Cooldown group and does not flush the current group
\* (the groups, the title of the current group, the title of the repeat
\* group and the flagged cool down steps are unchanged); it is classified by
\* the remaining rules: with a distance or a duration it gives exactly one
\* step in the repeat group and leaves partial alone, and with no quantity
\* and no other keyword it gives no step there and sets partial.
C26_NoGroupChangeInRepeat ==
    RampInRepeatRead =>
        LET before == log[pos - 1]
            F == FragFactsOf(LineFactsOf(body_lines[pos - 1]).frags[1])
        IN  /\ sm.groups = before.groups
            /\ sm.current.title = before.current.title
            /\ sm.repeat_group # <<>>
            /\ sm.repeat_group[1].title = before.repeat_group[1].title
            /\ sm.cooldown_steps = before.cooldown_steps
            /\ \A i \in 1..Len(sm.repeat_group[1].steps) :
                   ~Contains(sm.repeat_group[1].steps[i].text, "ramp")
            /\ F.dist # "" \/ F.dur # "" =>
                   /\ Len(sm.repeat_group[1].steps) = Len(before.repeat_group[1].steps) + 1
                   /\ sm.current = before.current
                   /\ sm.partial = before.partial
            /\ F.dist = "" /\ F.dur = "" /\ F.has \subseteq {"warm up", "cool down"} =>
                   /\ sm.repeat_group[1].steps = before.repeat_group[1].steps
                   /\ sm.partial

\* a warm up line with a distance was read inside a repeat block: one plain
\* distance step joined the repeat group
C26_WarmupInsideRepeat ==
    /\ RampInRepeatRead
    /\ body_lines[pos - 1] = "3.5km warm up"
    /\ sm.repeat_group[1].steps[Len(sm.repeat_group[1].steps)].text = "- 3.5km Z1-Z2 Pace"
    /\ sm.current.title = "Main Set"

\* the step starts with '- run uphill '
RunsUphill(step) == StartsWith(step.text, "- run uphill ")

\* of the steps exactly the first one runs uphill
OnlyFirstRunsUphill(steps) ==
    \A i \in 1..Len(steps) : RunsUphill(steps[i]) <=> i = 1

NoneRunsUphill(steps) == \A i \in 1..Len(steps) : ~RunsUphill(steps[i])

\* C27: in hills mode exactly the first step of every repeat group, emitted
\* or still open, carries 'run uphill ' right after '- ' and no later step
\* of it does; the rewrite is pending exactly while the open repeat group
\* has no step, so it fires once for each repeat group opened; no step of a
\* non-repeat group carries the prefix, and outside hills mode no step does.
C27_RunUphillOnFirstRepeatStep ==
    /\ NoneRunsUphill(sm.current.steps)
    /\ \A i \in 1..Len(sm.groups) :
           IF sm.hills_mode /\ sm.groups[i].title \in RepeatTitles
           THEN OnlyFirstRunsUphill(sm.groups[i].steps)
           ELSE NoneRunsUphill(sm.groups[i].steps)
    /\ sm.repeat_group # <<>> =>
           IF sm.hills_mode
           THEN /\ OnlyFirstRunsUphill(sm.repeat_group[1].steps)
                /\ sm.repeat_first_step_pending <=> sm.repeat_group[1].steps = <<>>
           ELSE NoneRunsUphill(sm.repeat_group[1].steps)

\* a hills translation returned two repeat groups, the first with two
\* steps: each starts with its own uphill step
C27_TwoRepeatGroups ==
    /\ pc = "done"
    /\ sm.hills_mode
    /\ Len(sm.groups) >= 2
    /\ sm.groups[1].title = "Main Set 6x"
    /\ Len(sm.groups[1].steps) >= 2
    /\ sm.groups[2].title = "Main Set 11x"
    /\ RunsUphill(sm.groups[1].steps[1])
    /\ RunsUphill(sm.groups[2].steps[1])

\* the fragment with facts F reaches the last branch of _process_fragment
Unclassified(F, hills_mode, allow_group_change) ==
    /\ ~F.skip
    /\ ~Has(F, FAST_BURSTS_HINT)
    /\ ~(allow_group_change /\ (Has(F, "warm up") \/ Has(F, "cool down")))
    /\ ~Has(F, "walking rest")
    /\ ~(hills_mode /\ (\/ Has(F, "running hard uphill")
                        \/ Has(F, "hard") /\ Has(F, "uphill")
                        \/ Has(F, "downhill")
                        \/ Has(F, "jog back down")
                        \/ Has(F, "easy jog back")))
    /\ F.dist = ""
    /\ F.dur = ""

\* the fallback steps among the steps
Fallbacks(steps) == {i \in 1..Len(steps) : steps[i] = HILLS_FALLBACK_STEP}

\* the line just read was processed fragment by fragment and one of its
\* fragments is unclassified
UnclassifiedRead ==
    /\ pc = "loop"
    /\ pos >= 2
    /\ LineKind(LineFactsOf(body_lines[pos - 1]), log[pos - 1].state)
           \in {"repeat_content", "normal_content"}
    /\ \E i \in 1..Len(LineFactsOf(body_lines[pos - 1]).frags) :
           Unclassified(FragFactsOf(LineFactsOf(body_lines[pos - 1]).frags[i]),
                        sm.hills_mode, log[pos - 1].state = NORMAL)

\* C28: the hills fallback step '- 2m Z1-Z2 Pace' is among the steps at
\* most once in a translation, exactly when hills_fallback_added is set,
\* and then hills mode is on and partial is set; a line adds it only when
\* one of its fragments is unclassified; and a line with an unclassified
\* fragment always leaves partial set.
C28_FallbackOnce ==
    /\ Cardinality(Fallbacks(AllSteps(sm))) = IF sm.hills_fallback_added THEN 1 ELSE 0
    /\ sm.hills_fallback_added => sm.hills_mode /\ sm.partial
    /\ pc = "loop" /\ pos >= 2 /\ sm.hills_fallback_added
            /\ ~log[pos - 1].hills_fallback_added => UnclassifiedRead
    /\ UnclassifiedRead =>
           /\ sm.partial
           /\ sm.hills_mode => sm.hills_fallback_added

\* in hills mode a second unclassified line was read after the fallback
\* step was there: still one fallback step
C28_SecondUnclassifiedLine ==
    /\ UnclassifiedRead
    /\ log[pos - 1].hills_fallback_added
    /\ Cardinality(Fallbacks(AllSteps(sm))) = 1
    /\ AllSteps(sm) = AllSteps(log[pos - 1])

\* w is a number followed by the unit: '90s', '2m'
IsDurationWord(w, unit) ==
    /\ Len(w) >= 2
    /\ Ch(w, Len(w)) = unit
    /\ \A i \in 1..(Len(w) - 1) : Ch(w, i) \in DigitChars

\* the duration a step text encodes: its first word in seconds, else its
\* first word in minutes, else ""
EncodedDuration(text) ==
    LET words == Split(text, " ")
        secs == {i \in 1..Len(words) : IsDurationWord(words[i], "s")}
        mins == {i \in 1..Len(words) : IsDurationWord(words[i], "m")}
    IN  IF secs # {} THEN words[Min(secs)]
        ELSE IF mins # {} THEN words[Min(mins)]
        ELSE ""

\* twice the duration d, in the unit of d
Twice(d) == StrOf(2 * IntOf(SubSeq(d, 1, Len(d) - 1))) \o SubSeq(d, Len(d), Len(d))

\* the line just read is one fragment that took the jog-downhill rule
JogDownhillRead ==
    /\ pc = "loop"
    /\ pos >= 2
    /\ sm.hills_mode
    /\ LineKind(LineFactsOf(body_lines[pos - 1]), log[pos - 1].state)
           \in {"repeat_content", "normal_content"}
    /\ Len(LineFactsOf(body_lines[pos - 1]).frags) = 1
    /\ LET F == FragFactsOf(LineFactsOf(body_lines[pos - 1]).frags[1])
       IN  /\ ~F.skip
           /\ F.has \cap {FAST_BURSTS_HINT, "warm up", "cool down", "walking rest", "hard"} = {}
           /\ F.has \cap {"jog back down", "easy jog back", "downhill"} # {}

\* C29: in hills mode a jog-downhill fragment adds one step 'Press lap, Jog
\* Downhill <dur> Z1-Z2 Pace' to its group (the open repeat group inside a
\* repeat block, else the current group), where <dur> is 120s when that
\* group had no step or its last step encodes no duration, and otherwise
\* twice the duration of its last step in the same unit; the steps of the
\* other groups play no part.
C29_JogDownhillDuration ==
    JogDownhillRead =>
        LET before == log[pos - 1]
            into_repeat == before.state \in REPEAT_STATES
            prev_steps == IF into_repeat THEN before.repeat_group[1].steps
                          ELSE before.current.steps
            steps == IF into_repeat THEN sm.repeat_group[1].steps ELSE sm.current.steps
            last == IF prev_steps = <<>> THEN ""
                    ELSE EncodedDuration(prev_steps[Len(prev_steps)].text)
            dur == IF last = "" THEN "120s" ELSE Twice(last)
        IN  /\ Len(steps) = Len(prev_steps) + 1
            /\ SubSeq(steps, 1, Len(prev_steps)) = prev_steps
            /\ steps[Len(steps)].text =
                   (IF into_repeat /\ prev_steps = <<>> THEN "- run uphill " ELSE "- ")
                       \o "Press lap, Jog Downhill " \o dur \o " Z1-Z2 Pace"

\* a jog downhill line was read after a repeat block whose last step was a
\* 30s rest had been closed: the current group was empty, so 120s
C29_JogAfterClosedRepeat ==
    /\ JogDownhillRead
    /\ log[pos - 1].state = NORMAL
    /\ log[pos - 1].current.steps = <<>>
    /\ log[pos - 1].groups # <<>>
    /\ GroupSteps(log[pos - 1].groups)[Len(GroupSteps(log[pos - 1].groups))].text = "- 30s Z1 Pace"
    /\ sm.current.steps = <<[text |-> "- Press lap, Jog Downhill 120s Z1-Z2 Pace",
                             id |-> sm.next_id - 1]>>

\* the group g is the group h as it was, or h with more steps: same title,
\* the steps of h first
Extends(g, h) ==
    /\ g.title = h.title
    /\ Len(g.steps) >= Len(h.steps)
    /\ SubSeq(g.steps, 1, Len(h.steps)) = h.steps

\* the groups a machine returns when nothing is moved after the loop
GroupsAtEnd(m) ==
    m.groups
        \o (IF m.repeat_group # <<>> /\ m.repeat_group[1].steps # <<>>
            THEN m.repeat_group ELSE <<>>)
        \o (IF m.current.steps # <<>> THEN <<m.current>> ELSE <<>>)

\* gs is hs with the last step of its last group, a 'Main Set', moved into
\* a new last group 'Cooldown'
TrailingStepMoved(gs, hs) ==
    /\ hs # <<>>
    /\ hs[Len(hs)].title = "Main Set"
    /\ gs # <<>>
    /\ gs[Len(gs)] = Group("Cooldown", <<hs[Len(hs)].steps[Len(hs[Len(hs)].steps)]>>)
    /\ GroupSteps(gs) = GroupSteps(hs)
    /\ \A i \in 1..(Len(gs) - 1) : gs[i].title = hs[i].title

\* the line just read is one fragment naming a warm up or a cool down, read
\* in NORMAL where it may change the group
RampInNormalRead ==
    /\ pc = "loop"
    /\ pos >= 2
    /\ LineKind(LineFactsOf(body_lines[pos - 1]), log[pos - 1].state) = "normal_content"
    /\ Len(LineFactsOf(body_lines[pos - 1]).frags) = 1
    /\ LET F == FragFactsOf(LineFactsOf(body_lines[pos - 1]).frags[1])
       IN  /\ ~F.skip
           /\ ~Has(F, FAST_BURSTS_HINT)
           /\ Has(F, "warm up") \/ Has(F, "cool down")

\* C30: a group keeps the title it was created with while the lines are
\* processed: an emitted group never changes, and the current group and
\* the open repeat group are, after a line, either the same group with the
\* same title and possibly more steps, or emitted under that title.  A warm
\* up or cool down fragment read in NORMAL emits the current group as it
\* is, when it has steps, and starts a new group 'Warmup' or 'Cooldown'
\* holding the ramp step alone.  After the loop the groups are the ones
\* collected, unless the trailing step of a final 'Main Set' was moved into
\* a 'Cooldown' group.
C30_TitleFixedAtCreation ==
    /\ pc = "loop" /\ pos >= 2 =>
           LET before == log[pos - 1]
               n == Len(before.groups)
           IN  /\ Len(sm.groups) >= n
               /\ SubSeq(sm.groups, 1, n) = before.groups
               /\ before.current.steps # <<>> =>
                      \/ Extends(sm.current, before.current)
                      \/ \E i \in (n + 1)..Len(sm.groups) :
                             Extends(sm.groups[i], before.current)
               /\ before.repeat_group # <<>> /\ before.repeat_group[1].steps # <<>> =>
                      \/ sm.repeat_group # <<>>
                            /\ Extends(sm.repeat_group[1], before.repeat_group[1])
                      \/ sm.repeat_group = <<>>
                            /\ \E i \in (n + 1)..Len(sm.groups) :
                                   Extends(sm.groups[i], before.repeat_group[1])
    /\ RampInNormalRead =>
           LET before == log[pos - 1]
               F == FragFactsOf(LineFactsOf(body_lines[pos - 1]).frags[1])
           IN  /\ sm.groups = GroupsAtEnd(before)
               /\ sm.current.title = IF Has(F, "warm up") THEN "Warmup" ELSE "Cooldown"
               /\ Len(sm.current.steps) = 1
               /\ Contains(sm.current.steps[1].text, " ramp ")
    /\ LoopEnded =>
           \/ sm.groups = GroupsAtEnd(log[Len(log) - 1])
           \/ TrailingStepMoved(sm.groups, GroupsAtEnd(log[Len(log) - 1]))

\* a warm up line was read in NORMAL while the current 'Main Set' had a
\* step: that step was emitted under 'Main Set' and the Warmup group holds
\* the ramp step
C30_WarmupAfterMainSetStep ==
    /\ RampInNormalRead
    /\ body_lines[pos - 1] = "3.5km warm up"
    /\ log[pos - 1].current.title = "Main Set"
    /\ log[pos - 1].current.steps # <<>>
    /\ sm.groups = <<log[pos - 1].current>>
    /\ sm.current.title = "Warmup"
    /\ sm.current.steps[1].text = "- 3.5km ramp Z1-Z3 Pace"

\* the steps among steps that are flagged in cooldown_steps of m
Flagged(m, steps) == {j \in 1..Len(steps) : steps[j].id \in m.cooldown_steps}

\* C32: a step flagged by a cool down fragment is always held by a group
\* titled 'Cooldown' (an emitted one or the current one), never by a 'Main
\* Set' or a repeat group; so after the loop nothing is moved: the groups
\* returned and rendered are the groups as the final flush left them.
C32_FlaggedStepStaysInCooldown ==
    /\ \A i \in 1..Len(sm.groups) :
           Flagged(sm, sm.groups[i].steps) # {} => sm.groups[i].title = "Cooldown"
    /\ Flagged(sm, sm.current.steps) # {} => sm.current.title = "Cooldown"
    /\ Flagged(sm, GroupSteps(sm.repeat_group)) = {}
    /\ LoopEnded =>
           LET flushed == GroupsAtEnd(log[Len(log) - 1])
           IN  /\ sm.groups = flushed
               /\ flushed # <<>> =>
                      result.text = RStrip(Join(RenderLines(flushed, 1), "\n"))

\* a cool down line was followed by a pace line: both steps were returned
\* in the one group 'Cooldown', the flagged step first
C32_CooldownThenPaceLine ==
    /\ LoopEnded
    /\ body_lines = <<"2.5km cool down", "400m at 4:55/km">>
    /\ Len(sm.groups) = 1
    /\ sm.groups[1].title = "Cooldown"
    /\ Flagged(sm, sm.groups[1].steps) = {1}
    /\ Len(sm.groups[1].steps) = 2

\* C33: between two lines of the loop a repeat group is open exactly when
\* the state is REPEAT_SEP_WAIT_OPEN, REPEAT_OPEN or REPEAT_SEP_CAPTURE: in
\* NORMAL none is open, and in the three REPEAT states one is open and the
\* current non-repeat group is titled 'Main Set'.
C33_RepeatGroupOpenInRepeatStates ==
    pc = "loop" =>
        IF sm.state = NORMAL
        THEN sm.repeat_group = <<>>
        ELSE /\ sm.state \in REPEAT_STATES
             /\ Len(sm.repeat_group) = 1
             /\ sm.current.title = "Main Set"

\* a reps header was read while the current group was a Warmup with its
\* step: the Warmup was emitted and the current group is a 'Main Set' again
C33_HeaderAfterWarmupGroup ==
    /\ pc = "loop"
    /\ sm.state = REPEAT_SEP_WAIT_OPEN
    /\ sm.repeat_group # <<>>
    /\ sm.groups # <<>>
    /\ sm.groups[Len(sm.groups)].title = "Warmup"
    /\ sm.current = Group("Main Set", <<>>)

\* the groups gs are the first groups of hs, unchanged
IsPrefix(gs, hs) == Len(gs) <= Len(hs) /\ SubSeq(hs, 1, Len(gs)) = gs

\* C34: while the lines are processed the emitted groups only grow at the
\* end: the groups as they stood after any earlier line are the first
\* groups now, each with the same title and the same steps at the same
\* position.
C34_EmittedGroupsOnlyGrow ==
    pc = "loop" => \A j \in 1..Len(log) : IsPrefix(log[j].groups, sm.groups)

\* a line emitted a group when another had been emitted before it: the
\* earlier one is still first and unchanged
C34_SecondGroupEmitted ==
    /\ pc = "loop"
    /\ pos >= 2
    /\ log[pos - 1].groups # <<>>
    /\ Len(sm.groups) = Len(log[pos - 1].groups) + 1
    /\ sm.groups[1] = log[pos - 1].groups[1]

\* outside hills mode the fragment with facts F is taken by a rule that
\* gives a step
GivesStep(F, allow_group_change) ==
    /\ ~F.skip
    /\ ~Has(F, FAST_BURSTS_HINT)
    /\ \/ allow_group_change /\ (Has(F, "warm up") \/ Has(F, "cool down"))
       \/ Has(F, "walking rest")
       \/ F.dist # ""
       \/ F.dur # ""

\* the quantity its step starts with
QuantityOf(F, allow_group_change) ==
    IF allow_group_change /\ (Has(F, "warm up") \/ Has(F, "cool down")) THEN Or(F.dist, "2m")
    ELSE IF Has(F, "walking rest") THEN Or(F.dur, "90s")
    ELSE Or(F.dist, F.dur)

\* the fragments of the line just read that were handed to _process_fragment
FragmentsRead ==
    IF LineKind(LineFactsOf(body_lines[pos - 1]), log[pos - 1].state)
           \in {"repeat_content", "normal_content"}
    THEN LineFactsOf(body_lines[pos - 1]).frags
    ELSE <<>>

\* C35: outside hills mode every fragment taken by a rule that gives a step
\* adds exactly one step and every other fragment (ignored or unclassified)
\* adds none: after a line the steps are the steps before it followed by
\* one step for each such fragment, in the order of the fragments, and each
\* starts with the quantity of its fragment.  The step lines of the text
\* returned are these steps, top to bottom, in that order.
C35_OneStepPerFragmentInOrder ==
    ~sm.hills_mode =>
        /\ pc = "loop" /\ pos >= 2 =>
               LET before == log[pos - 1]
                   allow == before.state = NORMAL
                   giving == {i \in 1..Len(FragmentsRead) :
                                 GivesStep(FragFactsOf(FragmentsRead[i]), allow)}
                   old == AllSteps(before)
                   new == AllSteps(sm)
               IN  /\ Len(new) = Len(old) + Cardinality(giving)
                   /\ SubSeq(new, 1, Len(old)) = old
                   /\ \A i \in giving :
                          StartsWith(new[Len(old) + Cardinality({j \in giving : j <= i})].text,
                                     "- " \o QuantityOf(FragFactsOf(FragmentsRead[i]), allow) \o " ")
        /\ LoopEnded /\ sm.groups # <<>> =>
               LET steps == AllSteps(log[Len(log) - 1])
                   out == Split(result.text, "\n")
                   at == {i \in 1..Len(out) : IsStepLine(out[i])}
               IN  /\ Cardinality(at) = Len(steps)
                   /\ \A i \in at : out[i] = steps[Cardinality({j \in at : j <= i})].text

\* outside hills mode a line of four fragments was read inside a repeat
\* block: the pace fragment and the rest fragment gave the two steps, in
\* that order, the ignored and the unclassified fragment none
C35_FourFragments ==
    /\ pc = "loop"
    /\ pos >= 2
    /\ ~sm.hills_mode
    /\ body_lines[pos - 1] = MIXED_LINE
    /\ log[pos - 1].state = REPEAT_SEP_WAIT_OPEN
    /\ sm.partial
    /\ Len(sm.repeat_group[1].steps) = 2
    /\ sm.repeat_group[1].steps[1].text = "- 1km 5:40/km Pace"
    /\ sm.repeat_group[1].steps[2].text = "- 90s Z1 Pace"

(***************************************************************************)
(* Properties of the quantity extractors on a bare '<n>m'.                 *)
(***************************************************************************)
\* a step text without its marker '- ' and without the uphill prefix
StepBody(text) ==
    IF StartsWith(text, "- run uphill ") THEN From(text, 14) ELSE From(text, 3)

\* n metres as kilometres, as printed for the lengths of MeterLines
Kilometres(w) ==
    CASE w = "5m" -> "0.005km"
      [] w = "12m" -> "0.012km"
      [] w = "250m" -> "0.25km"
      [] w = "400m" -> "0.4km"
      [] w = "1500m" -> "1.5km"
      [] OTHER -> ""

\* the line just read is one of MeterLines
MeterLineRead == pc = "loop" /\ pos >= 2 /\ body_lines[pos - 1] \in MeterLines

\* C31: a fragment whose only quantity is a bare '<n>m' is read as n
\* minutes by the walking-rest and hard-uphill rules and as n/1000 km by
\* the warm up, cool down, easy jog/run and plain quantity rules; the
\* duration-only rule is reached for seconds alone and gives no step in
\* minutes.
C31_BareMetres ==
    MeterLineRead =>
        LET before == log[pos - 1]
            normal == before.state = NORMAL
            F == FragFactsOf(LineFactsOf(body_lines[pos - 1]).frags[1])
            w == Split(body_lines[pos - 1], " ")[1]
            steps == IF normal THEN sm.current.steps ELSE sm.repeat_group[1].steps
            body == StepBody(steps[1].text)
        IN  /\ Len(steps) = 1
            /\ ~sm.partial
            /\ IsDurationWord(w, "m") =>
                   body = IF normal /\ Has(F, "warm up")
                          THEN Kilometres(w) \o " ramp Z1-Z3 Pace"
                          ELSE IF normal /\ Has(F, "cool down")
                          THEN Kilometres(w) \o " ramp Z3-Z1 Pace"
                          ELSE IF Has(F, "walking rest") THEN w \o " Z1 Pace"
                          ELSE IF Has(F, "running hard uphill") THEN w \o " Z3-Z5 HR"
                          ELSE Kilometres(w) \o " Z1-Z2 Pace"
            /\ IsDurationWord(w, "s") => body = w \o " Z1-Z2 Pace"
            /\ EndsWith(body, " Z1-Z2 Pace") => ~IsDurationWord(Split(body, " ")[1], "m")

\* the line '5m' alone was read in NORMAL: the step is a distance of 5
\* metres, not five minutes
C31_FiveMetres ==
    /\ MeterLineRead
    /\ body_lines[pos - 1] = "5m"
    /\ log[pos - 1].state = NORMAL
    /\ sm.current.steps[1].text = "- 0.005km Z1-Z2 Pace"

(***************************************************************************)
(* Properties of the feed parser.                                          *)
(***************************************************************************)
\* the END:VEVENT lines that close a block: a BEGIN:VEVENT stands before
\* them with no END:VEVENT in between
BlockEnds(lines) ==
    {e \in 1..Len(lines) :
        /\ lines[e] = END_VEVENT
        /\ \E b \in 1..(e - 1) :
              lines[b] = BEGIN_VEVENT /\ \A j \in (b + 1)..(e - 1) : lines[j] # END_VEVENT}

\* the block closed at e starts at the most recent BEGIN:VEVENT
BlockStart(lines, e) == Max({b \in 1..(e - 1) : lines[b] = BEGIN_VEVENT})

\* the value of property key in the block closed at e ("" when absent)
BlockProperty(lines, e, key) ==
    LET at == {j \in (BlockStart(lines, e) + 1)..(e - 1) :
                  Contains(lines[j], ":") /\ KeyOf(lines[j]) = key}
    IN  IF at = {} THEN "" ELSE ValueOf(lines[Max(at)])

\* blocks with a non-empty UID and a DTSTART starting with eight digits
EventEnds(lines) ==
    {e \in BlockEnds(lines) :
        /\ Strip(BlockProperty(lines, e, "UID")) # ""
        /\ EightDigits(Strip(BlockProperty(lines, e, "DTSTART")))}

\* the uid and the eight digits of each such block, in feed order
ExpectedEvents(lines) ==
    [k \in 1..Cardinality(EventEnds(lines)) |->
        LET e == CHOOSE x \in EventEnds(lines) :
                     Cardinality({y \in EventEnds(lines) : y <= x}) = k
        IN  [uid |-> Strip(BlockProperty(lines, e, "UID")),
             digits |-> SubSeq(Strip(BlockProperty(lines, e, "DTSTART")), 1, 8)]]

\* the uid and the yyyymmdd digits of each returned event
ReturnedEvents(events) ==
    [k \in 1..Len(events) |->
        [uid |-> events[k].uid,
         digits |-> Pad(events[k].dtstart_date.year, 4)
                        \o Pad(events[k].dtstart_date.month, 2)
                        \o Pad(events[k].dtstart_date.day, 2)]]

\* C19: parse_ics_events returns, in feed order, exactly one event for each
\* BEGIN:VEVENT ... END:VEVENT block (counted from the most recent
\* BEGIN:VEVENT) that has a non-empty UID and a DTSTART starting with eight
\* digits; lines outside a block, blocks lacking UID or DTSTART and an
\* END:VEVENT with no open block give no event, and no property leaks from
\* one block into the next event.
C19_OneEventPerBlock ==
    ics.pc \in {"returned", "raised"} =>
        /\ ics.pc = "returned"
        /\ ReturnedEvents(ics.events) = ExpectedEvents(ics.lines)

\* the same for the calls that return: every feed whose qualifying blocks
\* carry calendar dates is parsed as C19 states
C19_WhenReturned ==
    /\ ics.pc = "returned" => ReturnedEvents(ics.events) = ExpectedEvents(ics.lines)
    /\ ics.pc = "raised" =>
          Date(IntOf(SubSeq(Strip(Get(ics.cur, "DTSTART")), 1, 4)),
               IntOf(SubSeq(Strip(Get(ics.cur, "DTSTART")), 5, 6)),
               IntOf(SubSeq(Strip(Get(ics.cur, "DTSTART")), 7, 8))) = ValueError

\* a feed with two events and a block lacking UID between them was parsed
C19_TwoEventsReturned ==
    /\ ics.pc = "returned"
    /\ Len(ics.events) = 2
    /\ Cardinality(BlockEnds(ics.lines)) = 2
    /\ ics.events[1].uid # ics.events[2].uid

(***************************************************************************)
(* Properties of the sync runner.                                          *)
(***************************************************************************)
Uids(events) == [k \in DOMAIN events |-> events[k].uid]

\* the events run_sync has identified once the payloads are built
Identified(r) == [k \in DOMAIN r.built |-> r.built[k].ev]

CallsOf(r, fn) == {k \in DOMAIN r.calls : r.calls[k].fn = fn}

RequestsTo(r, url) == {k \in DOMAIN r.requests : r.requests[k].url = url}

\* C16: with all_workouts set (and no next_week window), run_sync identifies
\* and uploads every event parsed from the feed whatever its date: no parsed
\* event is missing from the identified events or from the upload because
\* its start date is today or in the past.
C16_AllWorkoutsKeepsEveryDate ==
    run.pc \in {"deliver", "returned"} /\ run.all_workouts /\ ~run.next_week =>
        /\ Identified(run) = run.events
        /\ run.pc = "returned" /\ ~run.delete_all =>
              \E k \in CallsOf(run, "bulk_upload_events") :
                  [j \in DOMAIN run.calls[k].arg |-> run.calls[k].arg[j].external_id]
                      = Uids(run.events)

\* C17: with dry_run set, no request of the run changes remote state: every
\* request sent is a GET (no bulk upload, no bulk delete, no folder
\* creation), whatever the other flags and the remote folder list.
C17_DryRunSendsOnlyGet ==
    run.pc # "idle" /\ run.dry_run =>
        \A k \in DOMAIN run.requests : run.requests[k].method = "GET"

\* the references of the events that pass selection and the past-event guard
RefsOfKept(r) ==
    [k \in DOMAIN hard_guard_drop_past(
                      select_events(r.events, r.include_today, r.all_workouts, r.next_week),
                      r.include_today) |->
        [external_id |->
            hard_guard_drop_past(
                select_events(r.events, r.include_today, r.all_workouts, r.next_week),
                r.include_today)[k].uid]]

\* C18: with delete_all set, run_sync hands bulk_delete_events exactly one
\* external_id reference per event that passed selection and the past-event
\* guard (sent as one PUT to the bulk-delete URL unless dry_run is set, in
\* which case the helper only logs), that is its last request before it
\* returns, and at no point of the run is a bulk upload called or sent;
\* without delete_all, bulk_delete_events is never called and no request
\* goes to the bulk-delete URL.
C18_DeleteAllThenReturn ==
    run.pc # "idle" =>
        /\ run.delete_all =>
              /\ CallsOf(run, "bulk_upload_events") = {}
              /\ RequestsTo(run, UPLOAD_URL) = {}
              /\ run.pc = "returned" =>
                    /\ run.calls = <<[fn |-> "bulk_delete_events", arg |-> RefsOfKept(run),
                                      dry_run |-> run.dry_run]>>
                    /\ run.result.upload_result = [skipped |-> TRUE, reason |-> "--delete-all set"]
                    /\ run.result.identified = Len(RefsOfKept(run))
                    /\ IF run.dry_run THEN RequestsTo(run, DELETE_URL) = {}
                       ELSE /\ RequestsTo(run, DELETE_URL) = {Len(run.requests)}
                            /\ run.requests[Len(run.requests)]
                                   = Request("PUT", DELETE_URL, RefsOfKept(run))
        /\ ~run.delete_all =>
              /\ CallsOf(run, "bulk_delete_events") = {}
              /\ RequestsTo(run, DELETE_URL) = {}
              /\ \A k \in DOMAIN run.requests : run.requests[k].method # "PUT"

\* a delete_all run returned after deleting one of two parsed events, the
\* other having been dropped as past
C18_DeletedOneOfTwo ==
    /\ run.pc = "returned"
    /\ run.delete_all
    /\ ~run.dry_run
    /\ Len(run.events) = 2
    /\ Len(run.requests[Len(run.requests)].body) = 1


====
